---- MODULE Spec2Model ----
(***************************************************************************)
(* Mode-based session orchestrator of the focus blocker's service worker   *)
(* (background.js, mode-based revision) together with storage.js.          *)
(*                                                                         *)
(* The worker is single threaded: a handler runs until its next `await`,   *)
(* and other handlers run in between.  A task below is one invocation of   *)
(* a handler; each action is the piece of code between two awaits.  A      *)
(* chrome.storage get or set takes effect when it is issued; a one-shot    *)
(* native message is answered by the agent in a step of its own.           *)
(* Time is counted in minutes (Date.now() / 60000).                        *)
(***************************************************************************)
EXTENDS Integers, Sequences, FiniteSets, TLC

\* ------------------------------------------------------------------ bounds
MaxTasks == 2       \* handler invocations in flight at once
MaxOps == 2         \* requests handled, interleaved, in one behaviour
MaxSeqOps == 3      \* requests handled one after the other in one behaviour
MaxCalls == 2       \* direct transitionMode calls in one behaviour
MaxPolls == 1       \* GET_STATE polls in one behaviour
MaxTime == 2        \* last minute of the clock
ShortSession == 1   \* an explicit msg.durationMinutes
RoundTripDuration == 25   \* the duration of the round trip off -> precision -> off
MaxLongTime == 27   \* last minute of the clock of the round trip
MaxSchedules == 2   \* stored schedules
MaxChecks == 2   \* schedule alarms
MaxSyncPolls == 2   \* polls of the reconciler beside the listener
MaxEdits == 2   \* edits made on the options page
MaxPorts == 2   \* port objects alive at once
MaxStarts == 3   \* process starts and handler calls beside the connection
MaxConnPolls == 1   \* poll timer firings beside the connection
MaxLockOps == 4   \* requests and settings edits around the lock
MaxHistoryOps == 4
MaxLockedOps == 3
MaxSettleOps == 2   \* session starts and ends on a long history

\* ------------------------------------------------------- program constants
MAX_HISTORY_ENTRIES == 200
DefaultDuration == 30
NullTime == 0       \* null startTime / endTime (Date.now() is never 0)
NoDuration == 0     \* params.durationMinutes undefined

VARIABLES
    focusSession,       \* chrome.storage.local: focusSession
    settings,           \* chrome.storage.local: settings
    sessionHistory,     \* chrome.storage.local: sessionHistory
    stats,              \* chrome.storage.local: stats
    keepalive,          \* the KEEPALIVE_ALARM exists
    syncingFromNative,  \* the anti-echo flag
    settleTimers,       \* pending setTimeout(() => syncingFromNative = false, 100)
    agent,              \* the enforcement agent's own state
    tasks,              \* handler invocations in flight
    now,                \* Date.now(), in minutes
    ops,                \* requests begun so far
    polls,              \* polls begun so far
    schedules,          \* chrome.storage.local: schedules
    blockRules,         \* chrome.storage.local: blockRules
    changes,            \* storage.onChanged events not yet handled
    pushes,             \* pushRulesToNative / pushSettingsToNative calls in flight
    listening,          \* the storage.onChanged listener is part of the behaviour
    nativePort,         \* let nativePort: the port held, 0 for null
    pollTimer,          \* let pollTimer: an interval handle is held
    runtime             \* the browser's side: ports, timers, the host

store == <<focusSession, settings, sessionHistory, stats>>
vars == <<focusSession, settings, sessionHistory, stats, keepalive,
          syncingFromNative, settleTimers, agent, tasks, now, ops, polls,
          schedules, blockRules, changes, pushes, listening,
          nativePort, pollTimer, runtime>>

Slots == 1..MaxTasks
Poller == 0          \* the slot of pollState
Modes == {"off", "precision", "strict"}
ModeNames == Modes \cup {"bogus"}
Pins == {"", "bad", "good"}
\* the (natural, parentPin) of an end request: an expiry carries no PIN
EndInputs == {<<FALSE, "">>, <<FALSE, "bad">>, <<FALSE, "good">>, <<TRUE, "">>}
Durations == {NoDuration, ShortSession}

\* ----------------------------------------------------------------- values
\* storage.js DEFAULT_STORAGE.focusSession: no mode field, active: false
DefaultSession ==
    [mode |-> "undef", startTime |-> NullTime, endTime |-> NullTime,
     locked |-> FALSE, scheduledId |-> "null", active |-> "false"]

\* the literal written by endPrecisionSession / endStrictSession
ClearedSession ==
    [mode |-> "off", startTime |-> NullTime, endTime |-> NullTime,
     locked |-> FALSE, scheduledId |-> "null", active |-> "undef"]

\* a response that carries no session
NoSession ==
    [mode |-> "none", startTime |-> NullTime, endTime |-> NullTime,
     locked |-> FALSE, scheduledId |-> "null", active |-> "undef"]

DefaultStats ==
    [totalSessions |-> 0, totalFocusMinutes |-> 0, currentStreak |-> 0,
     lastSessionDate |-> "null"]

\* settings the options page can have stored before a session starts
SettingsSet ==
    { [defaultMode |-> d, requireParentUnlock |-> l[1], parentPinHash |-> l[2],
       sessionDurationMinutes |-> DefaultDuration, blockAllChannels |-> "undef"] :
         d \in {"undef", "strict"},
         l \in {<<FALSE, "null">>, <<TRUE, "hash">>} }

NoRequest ==
    [type |-> "none", mode |-> "none", durationMinutes |-> NoDuration,
     scheduledId |-> "null", locked |-> FALSE, natural |-> FALSE, parentPin |-> ""]

\* storage.js DEFAULT_STORAGE.blockRules: the lists the agent is told about
DefaultRules == [blockedChannels |-> <<>>, allowedChannels |-> <<>>, blockedSites |-> <<>>]

\* the settings the agent holds, as pushSettingsToNative sends them
AgentSettings ==
    [defaultMode |-> "precision", blockAllChannels |-> "false",
     sessionDurationMinutes |-> DefaultDuration]

\* the keys and fields a GET_STATE answer can carry
SessionReport ==
    {"session", "session.mode", "session.startTime", "session.endTime",
     "session.locked", "session.scheduledId"}
RulesReport ==
    {"youtubeRules", "youtubeRules.blockedChannels", "youtubeRules.allowedChannels",
     "blockedDomains"}
SettingsReport ==
    {"settings", "settings.defaultMode", "settings.blockAllChannels",
     "settings.sessionDurationMinutes"}
FullReport == SessionReport \cup RulesReport \cup SettingsReport

NoResponse ==
    [status |-> "none", message |-> FALSE, session |-> NoSession,
     rules |-> DefaultRules, settings |-> AgentSettings, carries |-> {}]

\* the `updates` object of syncStateFromNative
NoUpdates ==
    [keys |-> {}, focusSession |-> NoSession, blockRules |-> DefaultRules,
     settings |-> [defaultMode |-> "undef", requireParentUnlock |-> FALSE,
                   parentPinHash |-> "null", sessionDurationMinutes |-> DefaultDuration,
                   blockAllChannels |-> "undef"]]

NoRecord ==
    [startTime |-> NullTime, endTime |-> NullTime, durationMinutes |-> 0,
     actualMinutes |-> 0, completedNaturally |-> FALSE, scheduledId |-> "null"]

NoResult == [status |-> "none", message |-> "none"]

NoParams ==
    [durationMinutes |-> NoDuration, scheduledId |-> "null", natural |-> FALSE,
     parentPin |-> "", targetMode |-> "none"]

\* session.mode ?? "off"
modeOf(s) == IF s.mode = "undef" THEN "off" ELSE s.mode

IdleTask ==
    [pc |-> "idle", op |-> "none", from |-> "none", to |-> "none",
     params |-> NoParams,
     st |-> [defaultMode |-> "undef", requireParentUnlock |-> FALSE,
             parentPinHash |-> "null", sessionDurationMinutes |-> DefaultDuration,
             blockAllChannels |-> "undef"],
     session |-> NoSession, rulesRead |-> DefaultRules, updates |-> NoUpdates,
     history |-> <<>>, statsRead |-> DefaultStats,
     record |-> NoRecord, request |-> NoRequest, response |-> NoResponse,
     k |-> "none", result |-> NoResult,
     writes |-> 0, sent |-> <<>>, answers |-> <<>>]


\* --------------------------------------------------------- pure functions
\* settings.requireParentUnlock && !!settings.parentPinHash
lockedOf(st) == st.requireParentUnlock /\ st.parentPinHash # "null"

\* params.durationMinutes ?? settings.sessionDurationMinutes
durationOf(params, st) ==
    IF params.durationMinutes # NoDuration THEN params.durationMinutes
    ELSE st.sessionDurationMinutes

\* a ?? b on a time
orTime(a, b) == IF a = NullTime THEN b ELSE a

\* sessionRecord with every end taken for a natural one
sessionRecordNatural(session, params, t) ==
    [startTime |-> session.startTime,
     endTime |-> t,
     durationMinutes |-> IF session.endTime # NullTime
                         THEN session.endTime - session.startTime
                         ELSE t - session.startTime,
     actualMinutes |-> t - session.startTime,
     completedNaturally |-> TRUE,
     scheduledId |-> session.scheduledId]

\* the history record built by endPrecisionSession / endStrictSession
sessionRecord(session, params, t) ==
    LET actualMinutes == t - session.startTime
    IN [startTime |-> session.startTime,
        endTime |-> t,
        durationMinutes |-> IF session.endTime # NullTime
                            THEN session.endTime - session.startTime
                            ELSE actualMinutes,
        actualMinutes |-> actualMinutes,
        completedNaturally |-> params.natural,
        scheduledId |-> session.scheduledId]

\* pop() in place of shift(): the newest entries go
shiftToCapDropsNewest(h) ==
    IF Len(h) > MAX_HISTORY_ENTRIES THEN SubSeq(h, 1, MAX_HISTORY_ENTRIES) ELSE h

RECURSIVE shiftToCap(_)
shiftToCap(h) == IF Len(h) > MAX_HISTORY_ENTRIES THEN shiftToCap(Tail(h)) ELSE h

\* storage.js recordSession: push, then shift while over the cap
recordSession(history, record) == shiftToCap(Append(history, record))

\* storage.js updateStatsAfterSession; the clock stays within one local day,
\* so lastSessionDate is null or today and never yesterday
updateStatsAfterSession(s, actualMinutes) ==
    [totalSessions |-> s.totalSessions + 1,
     totalFocusMinutes |-> s.totalFocusMinutes + actualMinutes,
     currentStreak |-> IF s.lastSessionDate = "today" THEN s.currentStreak ELSE 1,
     lastSessionDate |-> "today"]

\* ------------------------------------------------------------- task moves
\* the function returns: its locals are gone, its result is what the caller
\* gets.  What the invocation did stays on record until the reply: the store
\* writes it made (writes), the requests it sent (sent), the statuses of the
\* answers it got (answers), the last answer and the history record it built
finish(tk, status, message) ==
    [IdleTask EXCEPT !.pc = "done", !.op = tk.op, !.from = tk.from, !.to = tk.to,
                     !.params = tk.params, !.response = tk.response,
                     !.record = tk.record,
                     !.result = [status |-> status, message |-> message],
                     !.writes = tk.writes, !.sent = tk.sent, !.answers = tk.answers]

\* sendNativeMessage(msg): the task waits for the agent's answer
send(tk, req, k) ==
    [tk EXCEPT !.pc = "wait", !.k = k, !.request = req, !.response = NoResponse,
               !.sent = Append(@, req.type)]

\* dispatch with one more case: a same-mode key restarts the session
dispatchSameMode(from, to) ==
    CASE from = "off" /\ to = "precision" -> "startPrecisionSession"
      [] from = "off" /\ to = "strict" -> "startStrictSession"
      [] from = "precision" /\ to = "strict" -> "switchToStrict"
      [] from = "strict" /\ to = "precision" -> "switchToPrecision"
      [] from = "precision" /\ to = "off" -> "endPrecisionSession"
      [] from = "strict" /\ to = "off" -> "endStrictSession"
      [] from = "precision" /\ to = "precision" -> "startPrecisionSession"
      [] OTHER -> "invalid"

\* usable testing only `!response`
usableAnyAnswer(resp) == resp.status # "null"

\* !(!response || response.status !== "OK")
usable(resp) == resp.status = "OK"

\* the switch of transitionMode: which function a `from->to` key runs
dispatch(from, to) ==
    CASE from = "off" /\ to = "precision" -> "startPrecisionSession"
      [] from = "off" /\ to = "strict" -> "startStrictSession"
      [] from = "precision" /\ to = "strict" -> "switchToStrict"
      [] from = "strict" /\ to = "precision" -> "switchToPrecision"
      [] from = "precision" /\ to = "off" -> "endPrecisionSession"
      [] from = "strict" /\ to = "off" -> "endStrictSession"
      [] OTHER -> "invalid"

\* startPrecisionSession up to its first await: getSettings()
enterStartPrecision(tk) == [tk EXCEPT !.pc = "startPrecision_write", !.st = settings]

\* transitionMode with a switch that has no default case: an unknown key
\* falls through and the function returns undefined
transitionModeNoDefault(tk0, from, to) ==
    LET tk == [tk0 EXCEPT !.from = from, !.to = to]
        fn == dispatch(from, to)
    IN CASE fn = "startPrecisionSession" -> enterStartPrecision(tk)
         [] fn = "startStrictSession" ->
                [tk EXCEPT !.pc = "startStrict_send", !.st = settings]
         [] fn = "switchToStrict" ->
                [tk EXCEPT !.pc = "switchToStrict_write", !.session = focusSession]
         [] fn = "switchToPrecision" ->
                send(tk, [NoRequest EXCEPT !.type = "SWITCH_MODE", !.mode = "precision"],
                     "switchToPrecision_response")
         [] fn = "endPrecisionSession" ->
                [tk EXCEPT !.pc = "endPrecision_record", !.session = focusSession]
         [] fn = "endStrictSession" ->
                [tk EXCEPT !.pc = "endStrict_check", !.session = focusSession]
         [] OTHER -> finish(tk, "null", "none")

\* transitionMode(from, to, params) up to the first await of the function it
\* dispatches to; the default case returns the error at once
transitionMode(tk0, from, to) ==
    LET tk == [tk0 EXCEPT !.from = from, !.to = to]
        fn == dispatch(from, to)
    IN CASE fn = "startPrecisionSession" -> enterStartPrecision(tk)
         [] fn = "startStrictSession" ->
                [tk EXCEPT !.pc = "startStrict_send", !.st = settings]
         [] fn = "switchToStrict" ->
                [tk EXCEPT !.pc = "switchToStrict_write", !.session = focusSession]
         [] fn = "switchToPrecision" ->
                send(tk, [NoRequest EXCEPT !.type = "SWITCH_MODE", !.mode = "precision"],
                     "switchToPrecision_response")
         [] fn = "endPrecisionSession" ->
                [tk EXCEPT !.pc = "endPrecision_record", !.session = focusSession]
         [] fn = "endStrictSession" ->
                [tk EXCEPT !.pc = "endStrict_check", !.session = focusSession]
         [] OTHER -> finish(tk, "ERROR", "InvalidTransition")

setTask(t, tk) == tasks' = [tasks EXCEPT ![t] = tk]


\* unchanged groups
conn == <<nativePort, pollTimer, runtime>>
outside == <<schedules, blockRules, changes, pushes, listening, conn>>
agentSide == <<agent, now, ops, polls, outside>>
flags == <<syncingFromNative, settleTimers>>
counters == <<now, ops, polls, outside>>

\* `.then(sendResponse)` is a microtask: a handler that has returned replies
\* before any other event runs, and a storage.onChanged event is handled as
\* soon as its write is done.  Where the listener is left out nothing reads
\* syncingFromNative, so a pending settle timer commutes with every other
\* step: it is run down first.  Beside the listener the timer fires whenever
\* its 100 ms are over.
replying == \E t \in Slots : tasks[t].pc = "done"
quiet == ~replying /\ changes = <<>> /\ (listening \/ settleTimers = 0)

\* task t resumes at pc
at(t, pc) == quiet /\ tasks[t].pc = pc

\* ------------------------------------------------- off -> precision
\* startPrecisionSession in the order of startStrictSession: START_SESSION is
\* sent and nothing is stored before the agent's answer
startPrecisionSessionSendsFirst(t) ==
    /\ at(t, "startPrecision_write")
    /\ LET tk == tasks[t]
           duration == durationOf(tk.params, tk.st)
           locked == lockedOf(tk.st)
           session == [mode |-> "precision", startTime |-> now,
                       endTime |-> now + duration, locked |-> locked,
                       scheduledId |-> tk.params.scheduledId, active |-> "undef"]
       IN setTask(t, send([tk EXCEPT !.session = session],
                          [NoRequest EXCEPT !.type = "START_SESSION",
                                            !.mode = "precision",
                                            !.durationMinutes = duration,
                                            !.scheduledId = tk.params.scheduledId,
                                            !.locked = locked],
                          "startPrecision_response"))
    /\ UNCHANGED <<store, keepalive, flags, agentSide>>

\* startPrecisionSession, after getSettings(): build the session, write it,
\* then send START_SESSION(precision)
startPrecisionSession_write(t) ==
    /\ at(t, "startPrecision_write")
    /\ LET tk == tasks[t]
           duration == durationOf(tk.params, tk.st)
           locked == lockedOf(tk.st)
           session == [mode |-> "precision", startTime |-> now,
                       endTime |-> now + duration, locked |-> locked,
                       scheduledId |-> tk.params.scheduledId, active |-> "undef"]
       IN /\ focusSession' = session
          /\ setTask(t, send([tk EXCEPT !.session = session, !.writes = @ + 1],
                             [NoRequest EXCEPT !.type = "START_SESSION",
                                               !.mode = "precision",
                                               !.durationMinutes = duration,
                                               !.scheduledId = tk.params.scheduledId,
                                               !.locked = locked],
                             "startPrecision_response"))
    /\ UNCHANGED <<settings, sessionHistory, stats, keepalive, flags, agentSide>>

\* the focusSession written from a START_SESSION(precision) answer
precisionFromResponse(rs, session) ==
    [mode |-> IF rs.mode = "undef" THEN "precision" ELSE rs.mode,
     startTime |-> orTime(rs.startTime, session.startTime),
     endTime |-> orTime(rs.endTime, session.endTime),
     locked |-> rs.locked,
     scheduledId |-> IF rs.scheduledId = "null" THEN session.scheduledId
                     ELSE rs.scheduledId,
     active |-> "undef"]

\* startPrecisionSession, after the agent's answer
startPrecisionSession_response(t) ==
    /\ at(t, "startPrecision_response")
    /\ LET tk == tasks[t]
           resp == tk.response
       IN IF resp.status = "OK" /\ resp.session # NoSession
          THEN /\ syncingFromNative' = TRUE
               /\ focusSession' = precisionFromResponse(resp.session, tk.session)
               /\ setTask(t, [tk EXCEPT !.pc = "startPrecision_settle",
                                        !.writes = @ + 1])
               /\ UNCHANGED <<keepalive, settleTimers>>
          ELSE /\ keepalive' = TRUE
               /\ setTask(t, finish(tk, "OK", "none"))
               /\ UNCHANGED <<focusSession, flags>>
    /\ UNCHANGED <<settings, sessionHistory, stats, agentSide>>

\* startPrecisionSession, after the second write: settle timer, alarm, return
startPrecisionSession_settle(t) ==
    /\ at(t, "startPrecision_settle")
    /\ settleTimers' = settleTimers + 1
    /\ keepalive' = TRUE
    /\ setTask(t, finish(tasks[t], "OK", "none"))
    /\ UNCHANGED <<store, syncingFromNative, agentSide>>

\* ---------------------------------------------------- off -> strict
\* startStrictSession in the order of startPrecisionSession: the session is
\* written, then START_SESSION(strict) is sent
startStrictSessionWritesFirst(t) ==
    /\ at(t, "startStrict_send")
    /\ LET tk == tasks[t]
       IN /\ focusSession' = [mode |-> "strict", startTime |-> now,
                              endTime |-> now + durationOf(tk.params, tk.st),
                              locked |-> lockedOf(tk.st),
                              scheduledId |-> tk.params.scheduledId, active |-> "undef"]
          /\ setTask(t, send([tk EXCEPT !.writes = @ + 1],
                             [NoRequest EXCEPT !.type = "START_SESSION",
                                               !.mode = "strict",
                                               !.durationMinutes = durationOf(tk.params, tk.st),
                                               !.scheduledId = tk.params.scheduledId,
                                               !.locked = lockedOf(tk.st)],
                             "startStrict_response"))
    /\ UNCHANGED <<settings, sessionHistory, stats, keepalive, flags, agentSide>>

\* startStrictSession, after getSettings(): send START_SESSION(strict) first
startStrictSession_send(t) ==
    /\ at(t, "startStrict_send")
    /\ LET tk == tasks[t]
       IN setTask(t, send(tk, [NoRequest EXCEPT !.type = "START_SESSION",
                                                !.mode = "strict",
                                                !.durationMinutes = durationOf(tk.params, tk.st),
                                                !.scheduledId = tk.params.scheduledId,
                                                !.locked = lockedOf(tk.st)],
                          "startStrict_response"))
    /\ UNCHANGED <<store, keepalive, flags, agentSide>>

\* strictFromResponse with the literal of startPrecisionSession pasted in:
\* the mode defaults to precision
strictFromResponsePasted(rs, tk, t) ==
    LET session == IF rs # NoSession THEN rs
                   ELSE [mode |-> "undef", startTime |-> t,
                         endTime |-> t + durationOf(tk.params, tk.st),
                         locked |-> lockedOf(tk.st),
                         scheduledId |-> tk.params.scheduledId, active |-> "undef"]
    IN [mode |-> IF session.mode = "undef" THEN "precision" ELSE session.mode,
        startTime |-> session.startTime,
        endTime |-> session.endTime,
        locked |-> session.locked,
        scheduledId |-> session.scheduledId,
        active |-> "undef"]

\* response.session ?? { mode: "strict", ... } and the literal written from it
strictFromResponse(rs, tk, t) ==
    LET session == IF rs # NoSession THEN rs
                   ELSE [mode |-> "strict", startTime |-> t,
                         endTime |-> t + durationOf(tk.params, tk.st),
                         locked |-> lockedOf(tk.st),
                         scheduledId |-> tk.params.scheduledId, active |-> "undef"]
    IN [mode |-> IF session.mode = "undef" THEN "strict" ELSE session.mode,
        startTime |-> session.startTime,
        endTime |-> session.endTime,
        locked |-> session.locked,
        scheduledId |-> session.scheduledId,
        active |-> "undef"]

\* strictStartAccepted testing only `!response`
strictStartAcceptedAnyAnswer(resp) == resp.status # "null"

\* what startStrictSession does with an answer: write the session, or fall back
strictStartAccepted(resp) == usable(resp)

\* startStrictSession, after the agent's answer
startStrictSession_response(t) ==
    /\ at(t, "startStrict_response")
    /\ LET tk == tasks[t]
       IN IF ~strictStartAccepted(tk.response)
          THEN \* fall back: return startPrecisionSession(params)
               /\ setTask(t, enterStartPrecision(tk))
               /\ UNCHANGED <<focusSession, syncingFromNative>>
          ELSE /\ syncingFromNative' = TRUE
               /\ focusSession' = strictFromResponse(tk.response.session, tk, now)
               /\ setTask(t, [tk EXCEPT !.pc = "startStrict_settle", !.writes = @ + 1])
    /\ UNCHANGED <<settings, sessionHistory, stats, keepalive, settleTimers, agentSide>>

startStrictSession_settle(t) ==
    /\ at(t, "startStrict_settle")
    /\ settleTimers' = settleTimers + 1
    /\ keepalive' = TRUE
    /\ setTask(t, finish(tasks[t], "OK", "none"))
    /\ UNCHANGED <<store, syncingFromNative, agentSide>>

\* ------------------------------------------------ precision -> strict
\* switchToStrict, after getActiveSession(): write mode strict, then send
switchToStrict_write(t) ==
    /\ at(t, "switchToStrict_write")
    /\ LET tk == tasks[t]
           session == [tk.session EXCEPT !.mode = "strict"]
       IN /\ focusSession' = session
          /\ setTask(t, send([tk EXCEPT !.session = session, !.writes = @ + 1],
                             [NoRequest EXCEPT !.type = "SWITCH_MODE", !.mode = "strict"],
                             "switchToStrict_response"))
    /\ UNCHANGED <<settings, sessionHistory, stats, keepalive, flags, agentSide>>

\* revertMode with the revert forgotten
revertModeKept == "strict"

\* the mode switchToStrict writes back when the agent did not confirm
revertMode == "precision"

\* switchToStrict, after the agent's answer: revert on failure
switchToStrict_response(t) ==
    /\ at(t, "switchToStrict_response")
    /\ LET tk == tasks[t]
       IN IF ~usable(tk.response)
          THEN /\ focusSession' = [tk.session EXCEPT !.mode = revertMode]
               /\ setTask(t, finish([tk EXCEPT !.writes = @ + 1], "ERROR", "SwitchFailed"))
          ELSE /\ setTask(t, finish(tk, "OK", "none"))
               /\ UNCHANGED focusSession
    /\ UNCHANGED <<settings, sessionHistory, stats, keepalive, flags, agentSide>>

\* ------------------------------------------------ strict -> precision
\* switchToPrecision, after the agent's answer to SWITCH_MODE(precision)
switchToPrecision_response(t) ==
    /\ at(t, "switchToPrecision_response")
    /\ LET tk == tasks[t]
       IN IF ~usable(tk.response)
          THEN setTask(t, finish(tk, "ERROR", "SwitchFailed"))
          ELSE setTask(t, [tk EXCEPT !.pc = "switchToPrecision_write",
                                     !.session = focusSession])
    /\ UNCHANGED <<store, keepalive, flags, agentSide>>

\* switchToPrecision, after getActiveSession(): write mode precision
switchToPrecision_write(t) ==
    /\ at(t, "switchToPrecision_write")
    /\ focusSession' = [tasks[t].session EXCEPT !.mode = "precision"]
    /\ setTask(t, finish([tasks[t] EXCEPT !.writes = @ + 1], "OK", "none"))
    /\ UNCHANGED <<settings, sessionHistory, stats, keepalive, flags, agentSide>>


\* ------------------------------------------------------ recording an end
\* `if (session.startTime)`: build the record and issue getSessionHistory()
startRecord(tk, k) ==
    [tk EXCEPT !.pc = "recordSession_write",
               !.record = sessionRecord(tk.session, tk.params, now),
               !.history = sessionHistory,
               !.k = k]

\* recordSession, after getSessionHistory(): push, cap, write
recordSession_write(t) ==
    /\ at(t, "recordSession_write")
    /\ sessionHistory' = recordSession(tasks[t].history, tasks[t].record)
    /\ setTask(t, [tasks[t] EXCEPT !.pc = "updateStats_read", !.writes = @ + 1])
    /\ UNCHANGED <<focusSession, settings, stats, keepalive, flags, agentSide>>

\* updateStatsAfterSession: getStats()
updateStats_read(t) ==
    /\ at(t, "updateStats_read")
    /\ setTask(t, [tasks[t] EXCEPT !.pc = "updateStats_write", !.statsRead = stats])
    /\ UNCHANGED <<store, keepalive, flags, agentSide>>

\* updateStatsAfterSession, after getStats(): write the new stats
updateStats_write(t) ==
    /\ at(t, "updateStats_write")
    /\ stats' = updateStatsAfterSession(tasks[t].statsRead, tasks[t].record.actualMinutes)
    /\ setTask(t, [tasks[t] EXCEPT !.pc = tasks[t].k, !.k = "none", !.writes = @ + 1])
    /\ UNCHANGED <<focusSession, settings, sessionHistory, keepalive, flags, agentSide>>

\* endPrecisionSession without its clearing write: END_SESSION is sent over
\* the session still stored
clearPrecisionKeepsSession(t, tk) ==
    /\ UNCHANGED focusSession
    /\ setTask(t, send(tk, [NoRequest EXCEPT !.type = "END_SESSION",
                                             !.natural = tk.params.natural],
                       "endPrecision_response"))

\* --------------------------------------------------- precision -> off
\* endPrecisionSession: clear the session, then send END_SESSION
clearPrecision(t, tk) ==
    /\ focusSession' = ClearedSession
    /\ setTask(t, send([tk EXCEPT !.writes = @ + 1],
                       [NoRequest EXCEPT !.type = "END_SESSION",
                                         !.natural = tk.params.natural],
                       "endPrecision_response"))

\* endPrecisionSession, after getActiveSession()
endPrecisionSession_record(t) ==
    /\ at(t, "endPrecision_record")
    /\ LET tk == tasks[t]
       IN IF tk.session.startTime # NullTime
          THEN /\ setTask(t, startRecord(tk, "endPrecision_clear"))
               /\ UNCHANGED focusSession
          ELSE clearPrecision(t, tk)
    /\ UNCHANGED <<settings, sessionHistory, stats, keepalive, flags, agentSide>>

endPrecisionSession_clear(t) ==
    /\ at(t, "endPrecision_clear")
    /\ clearPrecision(t, tasks[t])
    /\ UNCHANGED <<settings, sessionHistory, stats, keepalive, flags, agentSide>>

\* endPrecisionSession, after the agent's answer (ignored)
endPrecisionSession_response(t) ==
    /\ at(t, "endPrecision_response")
    /\ keepalive' = FALSE
    /\ setTask(t, finish(tasks[t], "OK", "none"))
    /\ UNCHANGED <<store, flags, agentSide>>

\* ------------------------------------------------------ strict -> off
\* pinRequired with the `!` on params.natural lost
pinRequiredOnExpiry(params, session) ==
    params.natural /\ session.locked /\ params.parentPin = ""

\* the lock check of endStrictSession: a manual end of a locked session
\* without a PIN is refused
pinRequired(params, session) ==
    ~params.natural /\ session.locked /\ params.parentPin = ""

\* endStrictSession, after getActiveSession(): lock check, then END_SESSION
endStrictSession_check(t) ==
    /\ at(t, "endStrict_check")
    /\ LET tk == tasks[t]
       IN IF pinRequired(tk.params, tk.session)
          THEN setTask(t, finish(tk, "ERROR", "CredentialRequired"))
          ELSE setTask(t, send(tk, [NoRequest EXCEPT !.type = "END_SESSION",
                                                     !.natural = tk.params.natural,
                                                     !.parentPin = tk.params.parentPin],
                               "endStrict_response"))
    /\ UNCHANGED <<store, keepalive, flags, agentSide>>

\* passedBack with the `return response` never taken
passedBackNever(resp) == FALSE

\* passedBack taken for every failed answer, message or not
passedBackAlways(resp) == ~usable(resp)

\* endStrictSession: `return response` for a non-OK answer with a message
passedBack(resp) == ~usable(resp) /\ resp.status # "null" /\ resp.message

\* passedBackResult with the agent's answer replaced by an error of the
\* worker's own, as switchToPrecision returns one
passedBackResultOwn(resp) == [status |-> "ERROR", message |-> "EndFailed"]

\* endStrictSession: `return response`, the agent's status and message as
\* they came ("agent" stands for the agent's message text)
passedBackResult(resp) == [status |-> resp.status, message |-> "agent"]

\* endStrictSession: set the flag and clear the session
clearStrict(t, tk) ==
    /\ syncingFromNative' = TRUE
    /\ focusSession' = ClearedSession
    /\ setTask(t, [tk EXCEPT !.pc = "endStrict_settle", !.k = "none", !.writes = @ + 1])

\* endStrictSession, after the agent's answer
endStrictSession_response(t) ==
    /\ at(t, "endStrict_response")
    /\ LET tk == tasks[t]
       IN IF passedBack(tk.response)
          THEN /\ setTask(t, finish(tk, passedBackResult(tk.response).status,
                                      passedBackResult(tk.response).message))
               /\ UNCHANGED <<focusSession, syncingFromNative>>
          ELSE IF tk.session.startTime # NullTime
          THEN /\ setTask(t, startRecord(tk, "endStrict_clear"))
               /\ UNCHANGED <<focusSession, syncingFromNative>>
          ELSE clearStrict(t, tk)
    /\ UNCHANGED <<settings, sessionHistory, stats, keepalive, settleTimers, agentSide>>

endStrictSession_clear(t) ==
    /\ at(t, "endStrict_clear")
    /\ clearStrict(t, tasks[t])
    /\ UNCHANGED <<settings, sessionHistory, stats, keepalive, settleTimers, agentSide>>

endStrictSession_settle(t) ==
    /\ at(t, "endStrict_settle")
    /\ settleTimers' = settleTimers + 1
    /\ keepalive' = FALSE
    /\ setTask(t, finish(tasks[t], "OK", "none"))
    /\ UNCHANGED <<store, syncingFromNative, agentSide>>

\* the settle timer: setTimeout(() => { syncingFromNative = false; }, 100)
\* the callback of the settle timer with its assignment lost
settleTimerLeavesFlag ==
    /\ ~replying
    /\ changes = <<>>
    /\ settleTimers > 0
    /\ settleTimers' = settleTimers - 1
    /\ UNCHANGED <<store, keepalive, syncingFromNative, agentSide, tasks>>

settleTimer ==
    /\ ~replying
    /\ changes = <<>>
    /\ settleTimers > 0
    /\ settleTimers' = settleTimers - 1
    /\ syncingFromNative' = FALSE
    /\ UNCHANGED <<store, keepalive, agentSide, tasks>>


\* --------------------------------------------------- the enforcement agent
\* system-level (hosts) blocking is in force while the agent's session is strict
agentStrict == agent.session.mode = "strict"

\* whether the agent accepts the credential of an END_SESSION request
credentialOk(req) == ~agent.session.locked \/ req.natural \/ req.parentPin = "good"

\* the answers the agent can give to a request; "null" is no usable response
outcomes(req) ==
    CASE req.type = "START_SESSION" -> {"OK", "OKbare", "ERRORmsg", "null"}
      [] req.type = "SWITCH_MODE" ->
            (IF agent.session.mode \in {"precision", "strict"} THEN {"OK"} ELSE {})
            \cup {"ERRORmsg", "null"}
      [] req.type = "END_SESSION" ->
            (IF credentialOk(req) THEN {"OK"} ELSE {}) \cup {"ERRORmsg", "ERROR", "null"}
      [] req.type = "GET_STATE" -> {"OK", "null"}
      [] OTHER -> {}

\* the agent's session after it has answered `out` to `req`
agentAfter(req, out) ==
    IF out \notin {"OK", "OKbare"} THEN agent.session
    ELSE CASE req.type = "START_SESSION" ->
                [mode |-> req.mode, startTime |-> now,
                 endTime |-> now + req.durationMinutes, locked |-> req.locked,
                 scheduledId |-> req.scheduledId, active |-> "undef"]
           [] req.type = "SWITCH_MODE" -> [agent.session EXCEPT !.mode = req.mode]
           [] req.type = "END_SESSION" -> ClearedSession
           [] OTHER -> agent.session

responseOf(req, out) ==
    [status |-> CASE out \in {"OK", "OKbare"} -> "OK"
                  [] out \in {"ERROR", "ERRORmsg"} -> "ERROR"
                  [] OTHER -> "null",
     message |-> out = "ERRORmsg",
     session |-> IF out = "OK" /\ (\/ req.type = "START_SESSION"
                                   \/ req.type = "GET_STATE" /\ "session" \in agent.carries)
                 THEN agentAfter(req, out) ELSE NoSession,
     rules |-> IF out = "OK" /\ req.type = "GET_STATE" THEN agent.rules ELSE DefaultRules,
     settings |-> IF out = "OK" /\ req.type = "GET_STATE" THEN agent.settings
                  ELSE AgentSettings,
     carries |-> IF out = "OK" /\ req.type = "GET_STATE" THEN agent.carries ELSE {}]

\* the agent handles the request of a waiting task and the task gets the answer
agentResponds(t) ==
    /\ at(t, "wait")
    /\ \E out \in outcomes(tasks[t].request) :
          /\ agent' = [agent EXCEPT !.session = agentAfter(tasks[t].request, out)]
          /\ setTask(t, [tasks[t] EXCEPT !.pc = tasks[t].k, !.k = "none",
                                         !.response = responseOf(tasks[t].request, out),
                                         !.answers = Append(@, responseOf(tasks[t].request, out).status)])
    /\ UNCHANGED <<store, keepalive, flags, counters>>

\* a minute passes
tick ==
    /\ quiet
    /\ now < MaxTime
    /\ now' = now + 1
    /\ UNCHANGED <<store, keepalive, flags, agent, tasks, ops, polls, outside>>

\* --------------------------------------------------------- entry points
busy == {t \in Slots : tasks[t].pc # "idle"}

\* the lowest free slot, with fewer than `limit` handlers in flight
free(t, limit, budget) ==
    /\ quiet
    /\ runtime.started
    /\ t \in Slots \ busy
    /\ \A u \in Slots : u < t => u \in busy
    /\ Cardinality(busy) < limit
    /\ ops < budget

begin(t, tk) ==
    /\ setTask(t, tk)
    /\ ops' = ops + 1
    /\ UNCHANGED <<store, keepalive, flags, agent, now, polls, outside>>

\* onMessage "startSession": handleStartSession up to getSettings()
handleStartSession(t, limit, budget, durations) ==
    /\ free(t, limit, budget)
    /\ \E d \in durations :
          begin(t, [IdleTask EXCEPT !.op = "startSession", !.pc = "handleStart",
                                    !.params.durationMinutes = d, !.st = settings])

\* settings.defaultMode ?? "precision"
targetModeOf(st) == IF st.defaultMode = "undef" THEN "precision" ELSE st.defaultMode

\* handleStartSession, after getSettings(): always dispatched as off -> target
handleStartSession_dispatch(t) ==
    /\ at(t, "handleStart")
    /\ LET tk == tasks[t]
       IN setTask(t, transitionMode(
                        [tk EXCEPT !.params.durationMinutes = durationOf(tk.params, tk.st)],
                        "off", targetModeOf(tk.st)))
    /\ UNCHANGED <<store, keepalive, flags, agentSide>>

\* onMessage "endSession": handleEndSession up to getActiveSession()
handleEndSession(t, limit, budget) ==
    /\ free(t, limit, budget)
    /\ \E e \in EndInputs :
          begin(t, [IdleTask EXCEPT !.op = "endSession", !.pc = "handleEnd",
                                    !.params.natural = e[1], !.params.parentPin = e[2],
                                    !.session = focusSession])

\* onMessage "endSession" with no credential: natural false, no parentPin
handleEndSessionNoCredential(t, limit, budget) ==
    /\ free(t, limit, budget)
    /\ begin(t, [IdleTask EXCEPT !.op = "endSession", !.pc = "handleEnd",
                                 !.session = focusSession])

handleEndSession_dispatch(t) ==
    /\ at(t, "handleEnd")
    /\ LET tk == tasks[t]
           currentMode == modeOf(tk.session)
       IN IF currentMode = "off"
          THEN setTask(t, finish(tk, "OK", "none"))
          ELSE setTask(t, transitionMode(tk, currentMode, "off"))
    /\ UNCHANGED <<store, keepalive, flags, agentSide>>

\* onMessage "switchMode": handleSwitchMode up to getActiveSession()
handleSwitchMode(t, limit, budget) ==
    /\ free(t, limit, budget)
    /\ \E target \in ModeNames :
          begin(t, [IdleTask EXCEPT !.op = "switchMode", !.pc = "handleSwitch",
                                    !.params.targetMode = target,
                                    !.session = focusSession])

handleSwitchMode_dispatch(t) ==
    /\ at(t, "handleSwitch")
    /\ LET tk == tasks[t]
           currentMode == modeOf(tk.session)
       IN IF currentMode = "off"
          THEN setTask(t, finish(tk, "ERROR", "NoActiveSession"))
          ELSE IF currentMode = tk.params.targetMode
          THEN setTask(t, finish(tk, "OK", "none"))
          ELSE setTask(t, transitionMode(tk, currentMode, tk.params.targetMode))
    /\ UNCHANGED <<store, keepalive, flags, agentSide>>

\* a direct call transitionMode(from, to, params)
callTransitionMode(t) ==
    /\ free(t, 1, MaxCalls)
    /\ \E from \in ModeNames, to \in ModeNames :
       \E d \in (IF from = "off" /\ to \in {"precision", "strict"}
                 THEN Durations ELSE {NoDuration}),
          e \in (IF to = "off" /\ from \in {"precision", "strict"}
                 THEN EndInputs ELSE {<<FALSE, "">>}) :
          begin(t, transitionMode(
                      [IdleTask EXCEPT !.op = "transitionMode",
                                       !.params.durationMinutes = d,
                                       !.params.natural = e[1],
                                       !.params.parentPin = e[2]],
                      from, to))

\* ------------------------------------------------------- GET_STATE polling
\* the poll timer fires: pollState sends GET_STATE and the agent answers it.
\* Sending changes nothing here, so the request is sent when it is answered.
pollStateUpTo(limit) ==
    /\ at(Poller, "idle")
    /\ polls < limit
    /\ polls' = polls + 1
    /\ LET req == [NoRequest EXCEPT !.type = "GET_STATE"]
       IN \E out \in outcomes(req) :
             setTask(Poller, [IdleTask EXCEPT !.op = "pollState",
                                              !.pc = "pollState_response",
                                              !.response = responseOf(req, out)])
    /\ UNCHANGED <<store, keepalive, flags, agent, now, ops, outside>>

\* the answer carries the key or field f
has(resp, f) == f \in resp.carries

\* the comparison of syncStateFromNative: does the agent's session differ.
\* A stored field is never undefined, so it differs from a field not carried
sessionDiffers(current, resp) ==
    \/ current.mode # (IF has(resp, "session.mode") THEN resp.session.mode ELSE "off")
    \/ ~has(resp, "session.startTime") \/ current.startTime # resp.session.startTime
    \/ ~has(resp, "session.endTime") \/ current.endTime # resp.session.endTime
    \/ ~has(resp, "session.locked") \/ current.locked # resp.session.locked
    \/ ~has(resp, "session.scheduledId") \/ current.scheduledId # resp.session.scheduledId

\* sessionFromNative writing the mode alone: the times are left null
sessionFromNativeModeOnly(resp) ==
    [mode |-> IF has(resp, "session.mode") THEN resp.session.mode ELSE "off",
     startTime |-> NullTime,
     endTime |-> NullTime,
     locked |-> IF has(resp, "session.locked") THEN resp.session.locked ELSE FALSE,
     scheduledId |-> IF has(resp, "session.scheduledId") THEN resp.session.scheduledId
                     ELSE "null",
     active |-> "undef"]

\* updates.focusSession of syncStateFromNative
sessionFromNative(resp) ==
    [mode |-> IF has(resp, "session.mode") THEN resp.session.mode ELSE "off",
     startTime |-> IF has(resp, "session.startTime") THEN resp.session.startTime
                   ELSE NullTime,
     endTime |-> IF has(resp, "session.endTime") THEN resp.session.endTime ELSE NullTime,
     locked |-> IF has(resp, "session.locked") THEN resp.session.locked ELSE FALSE,
     scheduledId |-> IF has(resp, "session.scheduledId") THEN resp.session.scheduledId
                     ELSE "null",
     active |-> "undef"]

\* JSON.stringify of a stored list against JSON.stringify of a reported one
youtubeDiffers(rules, resp) ==
    \/ ~has(resp, "youtubeRules.blockedChannels")
    \/ rules.blockedChannels # resp.rules.blockedChannels
    \/ ~has(resp, "youtubeRules.allowedChannels")
    \/ rules.allowedChannels # resp.rules.allowedChannels

\* native.blockedChannels ?? [], native.allowedChannels ?? []
youtubeFromNative(rules, resp) ==
    [rules EXCEPT
       !.blockedChannels = IF has(resp, "youtubeRules.blockedChannels")
                           THEN resp.rules.blockedChannels ELSE <<>>,
       !.allowedChannels = IF has(resp, "youtubeRules.allowedChannels")
                           THEN resp.rules.allowedChannels ELSE <<>>]

\* the three tests of the settings branch
settingsDiffer(current, resp, f) ==
    /\ has(resp, "settings." \o f)
    /\ current[f] # resp.settings[f]

settingsFromNative(current, resp) ==
    [f \in DOMAIN current |->
        IF f \in DOMAIN resp.settings /\ settingsDiffer(current, resp, f)
        THEN resp.settings[f] ELSE current[f]]

\* syncStateFromNative resumes after getActiveSession()
afterSession(tk) ==
    IF sessionDiffers(tk.session, tk.response)
    THEN [tk EXCEPT !.updates.keys = @ \cup {"focusSession"},
                    !.updates.focusSession = sessionFromNative(tk.response)]
    ELSE tk

\* ... after getBlockRules() of the youtubeRules branch
afterYoutube(tk) ==
    IF youtubeDiffers(tk.rulesRead, tk.response)
    THEN [tk EXCEPT !.updates.keys = @ \cup {"blockRules"},
                    !.updates.blockRules = youtubeFromNative(tk.rulesRead, tk.response)]
    ELSE tk

\* ... the blockedDomains branch on `rules`
afterDomains(tk, rules) ==
    IF rules.blockedSites # tk.response.rules.blockedSites
    THEN [tk EXCEPT !.updates.keys = @ \cup {"blockRules"},
                    !.updates.blockRules =
                        [rules EXCEPT !.blockedSites = tk.response.rules.blockedSites]]
    ELSE tk

\* ... after getSettings()
afterSettings(tk) ==
    IF \E f \in DOMAIN tk.response.settings : settingsDiffer(tk.st, tk.response, f)
    THEN [tk EXCEPT !.updates.keys = @ \cup {"settings"},
                    !.updates.settings = settingsFromNative(tk.st, tk.response)]
    ELSE tk

\* syncStateFromNative runs on from its branch k to its next await: a read of
\* the store, or the chrome.storage.local.set at its end
RECURSIVE advance(_, _)
advance(tk, k) ==
    CASE k = "session" ->
            IF has(tk.response, "session")
            THEN [tk EXCEPT !.pc = "syncStateFromNative_session", !.session = focusSession]
            ELSE advance(tk, "youtubeRules")
      [] k = "youtubeRules" ->
            IF has(tk.response, "youtubeRules")
            THEN [tk EXCEPT !.pc = "syncStateFromNative_youtube", !.rulesRead = blockRules]
            ELSE advance(tk, "blockedDomains")
      [] k = "blockedDomains" ->
            IF ~has(tk.response, "blockedDomains") THEN advance(tk, "settings")
            ELSE IF "blockRules" \in tk.updates.keys
                 THEN advance(afterDomains(tk, tk.updates.blockRules), "settings")
                 ELSE [tk EXCEPT !.pc = "syncStateFromNative_domains",
                                 !.rulesRead = blockRules]
      [] k = "settings" ->
            IF has(tk.response, "settings")
            THEN [tk EXCEPT !.pc = "syncStateFromNative_settings", !.st = settings]
            ELSE advance(tk, "set")
      [] OTHER ->
            [tk EXCEPT !.pc = "pollState_settle",
                       !.writes = IF tk.updates.keys # {} THEN @ + 1 ELSE @]

\* the storage.onChanged event of a write: the keys whose value changed
changeEvent(origin, keys, session) ==
    [origin |-> origin, keys |-> keys,
     oldMode |-> modeOf(focusSession), newMode |-> modeOf(session)]

\* the values a set of `updates` leaves in the store
written(updates) ==
    [focusSession |-> IF "focusSession" \in updates.keys THEN updates.focusSession
                      ELSE focusSession,
     blockRules |-> IF "blockRules" \in updates.keys THEN updates.blockRules
                    ELSE blockRules,
     settings |-> IF "settings" \in updates.keys THEN updates.settings ELSE settings]

changedKeys(updates) ==
    {k \in {"focusSession", "blockRules", "settings"} :
        written(updates)[k] # [focusSession |-> focusSession, blockRules |-> blockRules,
                               settings |-> settings][k]}

\* chrome.storage.local.set(updates) by `origin`, and its change event
storageSet(updates, origin) ==
    /\ focusSession' = written(updates).focusSession
    /\ blockRules' = written(updates).blockRules
    /\ settings' = written(updates).settings
    /\ changes' = IF listening /\ changedKeys(updates) # {}
                  THEN Append(changes, changeEvent(origin, changedKeys(updates),
                                                   written(updates).focusSession))
                  ELSE changes

\* a step of syncStateFromNative ends: the task is at its next await, and when
\* that is the set at the end the store is written
syncStep(tk) ==
    /\ setTask(Poller, tk)
    /\ IF tk.pc = "pollState_settle" /\ tk.updates.keys # {}
       THEN storageSet(tk.updates, "reconciler")
       ELSE UNCHANGED <<focusSession, blockRules, settings, changes>>
    /\ UNCHANGED <<sessionHistory, stats, keepalive, settleTimers, agent, now, ops,
                   polls, schedules, pushes, listening, conn>>

\* pollState, after the answer: return, or raise the flag and enter
\* syncStateFromNative up to its first await
pollState_response ==
    /\ at(Poller, "pollState_response")
    /\ IF ~usable(tasks[Poller].response)
       THEN /\ setTask(Poller, IdleTask)
            /\ UNCHANGED <<store, keepalive, flags, agentSide>>
       ELSE /\ syncingFromNative' = TRUE
            /\ syncStep(advance(tasks[Poller], "session"))

syncStateFromNative_session ==
    /\ at(Poller, "syncStateFromNative_session")
    /\ syncStep(advance(afterSession(tasks[Poller]), "youtubeRules"))
    /\ UNCHANGED syncingFromNative

syncStateFromNative_youtube ==
    /\ at(Poller, "syncStateFromNative_youtube")
    /\ syncStep(advance(afterYoutube(tasks[Poller]), "blockedDomains"))
    /\ UNCHANGED syncingFromNative

syncStateFromNative_domains ==
    /\ at(Poller, "syncStateFromNative_domains")
    /\ syncStep(advance(afterDomains(tasks[Poller], tasks[Poller].rulesRead), "settings"))
    /\ UNCHANGED syncingFromNative

syncStateFromNative_settings ==
    /\ at(Poller, "syncStateFromNative_settings")
    /\ syncStep(advance(afterSettings(tasks[Poller]), "set"))
    /\ UNCHANGED syncingFromNative

\* pollState, finally: the settle timer
pollState_settle ==
    /\ at(Poller, "pollState_settle")
    /\ settleTimers' = settleTimers + 1
    /\ setTask(Poller, IdleTask)
    /\ UNCHANGED <<store, keepalive, syncingFromNative, agentSide>>

\* ------------------------------------------- connection management
Ports == 1..MaxPorts

\* a started process with no port, no timer, and a host that can be reached
NoRuntime ==
    [ports |-> {},          \* port objects not yet disconnected
     lost |-> {},           \* ports whose host went away, onDisconnect pending
     intervals |-> 0,       \* live setInterval(pollState) timers
     reconnects |-> 0,      \* pending setTimeout reconnects
     reachable |-> TRUE,    \* the host can be launched
     started |-> TRUE]      \* the startup function has run

\* the worker's connection state, with `polled` for a pollState() call made
link == [nativePort |-> nativePort, pollTimer |-> pollTimer, rt |-> runtime,
         polled |-> FALSE]

stopPollingKeepsTimer(c) == [c EXCEPT !.pollTimer = FALSE]

stopPolling(c) ==
    IF c.pollTimer
    THEN [c EXCEPT !.pollTimer = FALSE, !.rt.intervals = @ - 1]
    ELSE c

startPolling(c) ==
    IF c.pollTimer
    THEN c
    ELSE [c EXCEPT !.polled = TRUE, !.pollTimer = TRUE, !.rt.intervals = @ + 1]

scheduleReconnectNever(c) == c

scheduleReconnect(c) == [c EXCEPT !.rt.reconnects = @ + 1]

\* the results of connectNative(): nothing with a port held; else
\* chrome.runtime.connectNative throws and a reconnect is scheduled, or it
\* returns a port and polling starts.  The port of a host that cannot be
\* launched is disconnected at once
connectNative(c) ==
    IF c.nativePort # 0
    THEN {c}
    ELSE LET unused == Ports \ c.rt.ports
             p == CHOOSE q \in unused : \A r \in unused : q <= r
             opened == [c EXCEPT !.nativePort = p,
                                 !.rt.ports = @ \cup {p},
                                 !.rt.lost = IF c.rt.reachable THEN @ ELSE @ \cup {p}]
         IN (IF c.rt.reachable THEN {} ELSE {scheduleReconnect(c)})
            \cup (IF unused = {} THEN {} ELSE {startPolling(opened)})

\* nativePort.onDisconnect listener of port p
onDisconnectOf(c, p) ==
    scheduleReconnect(stopPolling(
        [c EXCEPT !.nativePort = 0, !.rt.ports = @ \ {p}, !.rt.lost = @ \ {p}]))

disconnectNativeKeepsPolling(c) ==
    IF c.nativePort = 0
    THEN c
    ELSE [c EXCEPT !.nativePort = 0,
                   !.rt.ports = @ \ {c.nativePort},
                   !.rt.lost = @ \ {c.nativePort}]

\* disconnectNative()
disconnectNativeOf(c) ==
    LET stopped == stopPolling(c)
    IN IF stopped.nativePort = 0
       THEN stopped
       ELSE [stopped EXCEPT !.nativePort = 0,
                            !.rt.ports = @ \ {c.nativePort},
                            !.rt.lost = @ \ {c.nativePort}]

\* sendToPort(msg): postMessage throws on a port whose host went away
sendToPortOf(c) ==
    IF c.nativePort # 0 /\ c.nativePort \in c.rt.lost
    THEN [c EXCEPT !.nativePort = 0]
    ELSE c

\* the connection state c is stored, and tk is what the tasks become; a
\* pollState() call made on the way sends GET_STATE
setLink(c, tk) ==
    /\ nativePort' = c.nativePort
    /\ pollTimer' = c.pollTimer
    /\ runtime' = c.rt
    /\ IF c.polled
       THEN LET req == [NoRequest EXCEPT !.type = "GET_STATE"]
            IN \E out \in outcomes(req) :
                  tasks' = [tk EXCEPT ![Poller] =
                               [IdleTask EXCEPT !.op = "pollState",
                                                !.pc = "pollState_response",
                                                !.response = responseOf(req, out)]]
       ELSE tasks' = tk

\* ------------------------------------------------------- specifications
InitMemory ==
    /\ settings \in SettingsSet
    /\ sessionHistory = <<>>
    /\ stats = DefaultStats
    /\ keepalive = FALSE
    /\ syncingFromNative = FALSE
    /\ settleTimers = 0
    /\ tasks = [t \in Slots \cup {Poller} |-> IdleTask]
    /\ now = 1
    /\ ops = 0
    /\ polls = 0

\* the worker with its startup behind it
InitWorker ==
    /\ InitMemory
    /\ nativePort = 0
    /\ pollTimer = FALSE
    /\ runtime = NoRuntime

\* an agent with no session that reports its session alone
SessionAgent ==
    [session |-> ClearedSession, rules |-> DefaultRules, settings |-> AgentSettings,
     carries |-> SessionReport]

\* a fresh install with no schedules, the listener left out
Init ==
    /\ InitWorker
    /\ focusSession = DefaultSession
    /\ agent = SessionAgent
    /\ schedules = <<>>
    /\ blockRules = DefaultRules
    /\ changes = <<>>
    /\ pushes = <<>>
    /\ listening = FALSE

\* the steps of a running transition
transitionStep(t) ==
    \/ startPrecisionSession_write(t)
    \/ startPrecisionSession_response(t)
    \/ startPrecisionSession_settle(t)
    \/ startStrictSession_send(t)
    \/ startStrictSession_response(t)
    \/ startStrictSession_settle(t)
    \/ switchToStrict_write(t)
    \/ switchToStrict_response(t)
    \/ switchToPrecision_response(t)
    \/ switchToPrecision_write(t)
    \/ endPrecisionSession_record(t)
    \/ endPrecisionSession_clear(t)
    \/ endPrecisionSession_response(t)
    \/ endStrictSession_check(t)
    \/ endStrictSession_response(t)
    \/ endStrictSession_clear(t)
    \/ endStrictSession_settle(t)
    \/ recordSession_write(t)
    \/ updateStats_read(t)
    \/ updateStats_write(t)

handlerStep(t) ==
    \/ handleStartSession_dispatch(t)
    \/ handleEndSession_dispatch(t)
    \/ handleSwitchMode_dispatch(t)

\* the handler's promise resolves and `.then(sendResponse)` runs: the caller
\* gets the result and the invocation is over
reply(t) ==
    /\ tasks[t].pc = "done"
    /\ setTask(t, IdleTask)
    /\ UNCHANGED <<store, keepalive, flags, agentSide>>

\* the worker: handlers interleave at their awaits, the poll runs beside them
Next ==
    \/ \E t \in Slots : handleStartSession(t, MaxTasks, MaxOps, {ShortSession})
    \/ \E t \in Slots : handleEndSession(t, MaxTasks, MaxOps)
    \/ \E t \in Slots : handleSwitchMode(t, MaxTasks, MaxOps)
    \/ \E t \in Slots : handlerStep(t)
    \/ \E t \in Slots : transitionStep(t)
    \/ \E t \in Slots : agentResponds(t)
    \/ \E t \in Slots : reply(t)
    \/ pollStateUpTo(MaxPolls)
    \/ pollState_response
    \/ syncStateFromNative_session
    \/ pollState_settle
    \/ settleTimer
    \/ tick

Spec == Init /\ [][Next]_vars

\* requests handled one at a time, the agent changed by this worker alone
NextSeq ==
    \/ \E t \in Slots : handleStartSession(t, 1, MaxSeqOps, Durations)
    \/ \E t \in Slots : handleEndSession(t, 1, MaxSeqOps)
    \/ \E t \in Slots : handleSwitchMode(t, 1, MaxSeqOps)
    \/ \E t \in Slots : handlerStep(t)
    \/ \E t \in Slots : transitionStep(t)
    \/ \E t \in Slots : agentResponds(t)
    \/ \E t \in Slots : reply(t)
    \/ settleTimer
    \/ tick

SpecSeq == Init /\ [][NextSeq]_vars

\* transitionMode called directly, one call at a time
NextCall ==
    \/ \E t \in Slots : callTransitionMode(t)
    \/ \E t \in Slots : transitionStep(t)
    \/ \E t \in Slots : agentResponds(t)
    \/ \E t \in Slots : reply(t)
    \/ settleTimer
    \/ tick

SpecCall == Init /\ [][NextCall]_vars

\* the round trip: off -> precision for RoundTripDuration minutes, then
\* precision -> off as a manual end, on a clock that runs past the session
roundTripStart(t) ==
    /\ ops = 0
    /\ free(t, 1, 2)
    /\ begin(t, transitionMode(
                   [IdleTask EXCEPT !.op = "transitionMode",
                                    !.params.durationMinutes = RoundTripDuration],
                   "off", "precision"))

roundTripEnd(t) ==
    /\ ops = 1
    /\ free(t, 1, 2)
    /\ begin(t, transitionMode([IdleTask EXCEPT !.op = "transitionMode"],
                               "precision", "off"))

longTick ==
    /\ quiet
    /\ now < MaxLongTime
    /\ now' = now + 1
    /\ UNCHANGED <<store, keepalive, flags, agent, tasks, ops, polls, outside>>

NextRound ==
    \/ \E t \in Slots : roundTripStart(t)
    \/ \E t \in Slots : roundTripEnd(t)
    \/ \E t \in Slots : startPrecisionSession_write(t)
    \/ \E t \in Slots : startPrecisionSession_response(t)
    \/ \E t \in Slots : startPrecisionSession_settle(t)
    \/ \E t \in Slots : endPrecisionSession_record(t)
    \/ \E t \in Slots : recordSession_write(t)
    \/ \E t \in Slots : updateStats_read(t)
    \/ \E t \in Slots : updateStats_write(t)
    \/ \E t \in Slots : endPrecisionSession_clear(t)
    \/ \E t \in Slots : endPrecisionSession_response(t)
    \/ \E t \in Slots : agentResponds(t)
    \/ \E t \in Slots : reply(t)
    \/ settleTimer
    \/ longTick

SpecRound == Init /\ [][NextRound]_vars

\* ----------------------------------------------------------- reconciler
\* a session the store or the agent can hold
RunningSession ==
    [mode |-> "precision", startTime |-> 1, endTime |-> 1 + ShortSession,
     locked |-> FALSE, scheduledId |-> "null", active |-> "undef"]

\* rules other than the defaults
EditedRules ==
    [blockedChannels |-> <<"channel">>, allowedChannels |-> <<>>,
     blockedSites |-> <<"site">>]

\* the answers to GET_STATE by the keys and fields they carry: a field is
\* carried only inside its key
ReportShapes ==
    {c \in SUBSET FullReport :
        /\ "session" \notin c => c \cap SessionReport = {}
        /\ "youtubeRules" \notin c => c \cap RulesReport \subseteq {"blockedDomains"}
        /\ "settings" \notin c => c \cap SettingsReport = {}}

\* syncStateFromNative run from an await to its end with nothing in between
RECURSIVE reconciled(_)
reconciled(tk) ==
    CASE tk.pc = "syncStateFromNative_session" ->
            reconciled(advance(afterSession(tk), "youtubeRules"))
      [] tk.pc = "syncStateFromNative_youtube" ->
            reconciled(advance(afterYoutube(tk), "blockedDomains"))
      [] tk.pc = "syncStateFromNative_domains" ->
            reconciled(advance(afterDomains(tk, tk.rulesRead), "settings"))
      [] tk.pc = "syncStateFromNative_settings" ->
            reconciled(advance(afterSettings(tk), "set"))
      [] OTHER -> tk

\* syncStateFromNative(resp) on the store as it is
syncStateFromNative(resp) ==
    reconciled(advance([IdleTask EXCEPT !.response = resp], "session"))

\* any store, any agent, any shape of report
InitReconcile ==
    /\ InitWorker
    /\ focusSession \in {DefaultSession, RunningSession}
    /\ blockRules \in {DefaultRules, EditedRules}
    /\ ~settings.requireParentUnlock
    /\ \E c \in ReportShapes, session \in {ClearedSession, RunningSession} :
          agent = [session |-> session, rules |-> EditedRules,
                   settings |-> AgentSettings, carries |-> c]
    /\ schedules = <<>>
    /\ changes = <<>>
    /\ pushes = <<>>
    /\ listening = FALSE

\* the poll alone
NextReconcile ==
    \/ pollStateUpTo(MaxSyncPolls)
    \/ pollState_response
    \/ syncStateFromNative_session
    \/ syncStateFromNative_youtube
    \/ syncStateFromNative_domains
    \/ syncStateFromNative_settings
    \/ pollState_settle
    \/ settleTimer

SpecReconcile == InitReconcile /\ [][NextReconcile]_vars

\* ------------------------------------------------- listener and pushes
\* the settings object of SYNC_SETTINGS
settingsPushed(st) ==
    [defaultMode |-> IF st.defaultMode = "undef" THEN "precision" ELSE st.defaultMode,
     blockAllChannels |-> IF st.blockAllChannels = "undef" THEN "false"
                          ELSE st.blockAllChannels,
     sessionDurationMinutes |-> st.sessionDurationMinutes]

\* a call of pushRulesToNative / pushSettingsToNative up to its await: the
\* store is read when the call is made
pushOf(type, ev) ==
    [type |-> type, origin |-> ev.origin, rules |-> blockRules,
     settings |-> settingsPushed(settings)]

\* the pushes the listener starts for an event: none while the flag is up
pushesFor(ev, flag) ==
    IF flag THEN <<>>
    ELSE (IF "blockRules" \in ev.keys THEN <<pushOf("SYNC_RULES", ev)>> ELSE <<>>)
         \o (IF "settings" \in ev.keys THEN <<pushOf("SYNC_SETTINGS", ev)>> ELSE <<>>)

\* the keepalive alarm after the focusSession branch of the listener (the
\* badge and the notification are no state of the worker)
alarmAfter(ev, flag) ==
    CASE flag \/ "focusSession" \notin ev.keys -> keepalive
      [] ev.oldMode = "off" /\ ev.newMode # "off" -> TRUE
      [] ev.oldMode # "off" /\ ev.newMode = "off" -> FALSE
      [] OTHER -> keepalive

\* chrome.storage.onChanged listener, on the oldest event
onChanged ==
    /\ ~replying
    /\ changes # <<>>
    /\ changes' = Tail(changes)
    /\ keepalive' = alarmAfter(Head(changes), syncingFromNative)
    /\ pushes' = pushes \o pushesFor(Head(changes), syncingFromNative)
    /\ UNCHANGED <<store, blockRules, flags, agent, tasks, now, ops, polls, schedules,
                   listening, conn>>

\* s without its i-th element
without(s, i) == SubSeq(s, 1, i - 1) \o SubSeq(s, i + 1, Len(s))

\* pushRulesToNative, after getBlockRules(): SYNC_RULES is sent; the agent
\* takes the rules over when the message reaches it
pushRulesToNative ==
    /\ quiet
    /\ \E i \in 1..Len(pushes) :
          /\ pushes[i].type = "SYNC_RULES"
          /\ pushes' = without(pushes, i)
          /\ \E reached \in BOOLEAN :
                agent' = IF reached THEN [agent EXCEPT !.rules = pushes[i].rules]
                         ELSE agent
    /\ UNCHANGED <<store, blockRules, keepalive, flags, tasks, now, ops, polls,
                   schedules, changes, listening, conn>>

\* pushSettingsToNative, after getSettings(): SYNC_SETTINGS is sent
pushSettingsToNative ==
    /\ quiet
    /\ \E i \in 1..Len(pushes) :
          /\ pushes[i].type = "SYNC_SETTINGS"
          /\ pushes' = without(pushes, i)
          /\ \E reached \in BOOLEAN :
                agent' = IF reached THEN [agent EXCEPT !.settings = pushes[i].settings]
                         ELSE agent
    /\ UNCHANGED <<store, blockRules, keepalive, flags, tasks, now, ops, polls,
                   schedules, changes, listening, conn>>

\* the options page: setBlockRules(rules) with a site added or removed
userSetsRules ==
    /\ quiet
    /\ ops < MaxEdits
    /\ ops' = ops + 1
    /\ storageSet([NoUpdates EXCEPT
                     !.keys = {"blockRules"},
                     !.blockRules = [blockRules EXCEPT
                                       !.blockedSites = IF @ = <<>> THEN <<"site">>
                                                        ELSE <<>>]],
                  "user")
    /\ UNCHANGED <<sessionHistory, stats, keepalive, flags, agent, tasks, now, polls,
                   schedules, pushes, listening, conn>>

\* the options page: setSettings(settings) with blockAllChannels switched
userSetsSettings ==
    /\ quiet
    /\ ops < MaxEdits
    /\ ops' = ops + 1
    /\ storageSet([NoUpdates EXCEPT
                     !.keys = {"settings"},
                     !.settings = [settings EXCEPT
                                     !.blockAllChannels = IF @ = "true" THEN "false"
                                                          ELSE "true"]],
                  "user")
    /\ UNCHANGED <<sessionHistory, stats, keepalive, flags, agent, tasks, now, polls,
                   schedules, pushes, listening, conn>>

\* an agent that answers GET_STATE in full; its rules can be those another
\* browser profile pushed
InitSync ==
    /\ InitWorker
    /\ ~settings.requireParentUnlock
    /\ focusSession = DefaultSession
    /\ \E rules \in {DefaultRules, EditedRules} :
          agent = [session |-> ClearedSession, rules |-> rules,
                   settings |-> AgentSettings, carries |-> FullReport]
    /\ schedules = <<>>
    /\ blockRules = DefaultRules
    /\ changes = <<>>
    /\ pushes = <<>>
    /\ listening = TRUE

\* the poll and the options page beside the listener
NextSync ==
    \/ userSetsRules
    \/ userSetsSettings
    \/ onChanged
    \/ pushRulesToNative
    \/ pushSettingsToNative
    \/ pollStateUpTo(MaxSyncPolls)
    \/ pollState_response
    \/ syncStateFromNative_session
    \/ syncStateFromNative_youtube
    \/ syncStateFromNative_domains
    \/ syncStateFromNative_settings
    \/ pollState_settle
    \/ settleTimer

SpecSync == InitSync /\ [][NextSync]_vars

\* ------------------------------------------------------- schedule engine
\* now.getDay() and now.getHours() * 60 + now.getMinutes(), on one day
dayOf(t) == "mon"
minutesOf(t) == t

\* the schedules the options page can have stored: the id is the position
ScheduleShapes ==
    [enabled : BOOLEAN, days : {{"tue"}, {"mon", "tue"}},
     startMinutes : {0, 2}, endMinutes : {3}]

ScheduleLists ==
    UNION {{[i \in 1..n |->
               [id |-> <<"s", i>>, enabled |-> f[i].enabled, days |-> f[i].days,
                startMinutes |-> f[i].startMinutes, endMinutes |-> f[i].endMinutes]] :
              f \in [1..n -> ScheduleShapes]} : n \in 0..MaxSchedules}

\* the test of the loop body of checkSchedules
triggers(schedule, t) ==
    /\ schedule.enabled
    /\ dayOf(t) \in schedule.days
    /\ minutesOf(t) >= schedule.startMinutes
    /\ minutesOf(t) < schedule.endMinutes

\* `schedule.days.includes(day)` on an enabled entry with no `days`: a
\* TypeError, which ends checkSchedules
throws(schedule) == schedule.enabled /\ "days" \notin DOMAIN schedule

\* the loop of checkSchedules with no `return` after a start
RECURSIVE startsEveryMatch(_, _)
startsEveryMatch(list, t) ==
    IF list = <<>> \/ throws(Head(list)) THEN <<>>
    ELSE IF triggers(Head(list), t)
         THEN <<Head(list)>> \o startsEveryMatch(Tail(list), t)
         ELSE startsEveryMatch(Tail(list), t)

\* the loop of checkSchedules: the schedules it calls handleStartSession for
RECURSIVE starts(_, _)
starts(list, t) ==
    IF list = <<>> \/ throws(Head(list)) THEN <<>>
    ELSE IF triggers(Head(list), t) THEN <<Head(list)>>
         ELSE starts(Tail(list), t)

\* storage.js isSessionActive: the `active` field, then the expiry test
isSessionActive(session, t) ==
    /\ session.active = "true"
    /\ ~(session.endTime # NullTime /\ t >= session.endTime)

\* onAlarm SCHEDULE_CHECK_ALARM: checkSchedules up to isSessionActive()'s
\* getActiveSession()
checkSchedules(t) ==
    /\ free(t, 1, MaxChecks)
    /\ begin(t, [IdleTask EXCEPT !.op = "checkSchedules", !.pc = "checkSchedules_active",
                                 !.session = focusSession])

\* checkSchedules, after isSessionActive(): return, or getSchedules()
checkSchedules_active(t) ==
    /\ at(t, "checkSchedules_active")
    /\ IF isSessionActive(tasks[t].session, now)
       THEN setTask(t, IdleTask)
       ELSE setTask(t, [tasks[t] EXCEPT !.pc = "checkSchedules_loop"])
    /\ UNCHANGED <<store, keepalive, flags, agentSide>>

\* checkSchedules passing the length of the whole window as the duration
checkSchedules_loopWholeWindow(t) ==
    /\ at(t, "checkSchedules_loop")
    /\ LET calls == starts(schedules, now)
       IN IF calls = <<>>
          THEN setTask(t, IdleTask)
          ELSE setTask(t, [tasks[t] EXCEPT
                             !.pc = "handleStart",
                             !.params.durationMinutes =
                                 calls[1].endMinutes - calls[1].startMinutes,
                             !.params.scheduledId = calls[1].id,
                             !.st = settings])
    /\ UNCHANGED <<store, keepalive, flags, agentSide>>

\* checkSchedules, after getSchedules(): the loop, up to getSettings() of the
\* handleStartSession it calls
checkSchedules_loop(t) ==
    /\ at(t, "checkSchedules_loop")
    /\ LET calls == starts(schedules, now)
       IN IF calls = <<>>
          THEN setTask(t, IdleTask)
          ELSE setTask(t, [tasks[t] EXCEPT
                             !.pc = "handleStart",
                             !.params.durationMinutes =
                                 calls[1].endMinutes - minutesOf(now),
                             !.params.scheduledId = calls[1].id,
                             !.st = settings])
    /\ UNCHANGED <<store, keepalive, flags, agentSide>>

InitSchedule ==
    /\ InitWorker
    /\ ~settings.requireParentUnlock
    /\ focusSession = DefaultSession
    /\ agent = SessionAgent
    /\ schedules \in ScheduleLists
    /\ blockRules = DefaultRules
    /\ changes = <<>>
    /\ pushes = <<>>
    /\ listening = FALSE

\* entries the options page never stores: one with no `days`, one whose
\* window ends before it starts
MalformedShapes ==
    [enabled : BOOLEAN, startMinutes : {0}, endMinutes : {3}]
    \cup [enabled : {TRUE}, days : {{"mon", "tue"}}, startMinutes : {2}, endMinutes : {1}]

MalformedLists ==
    UNION {{[i \in 1..n |-> [id |-> <<"s", i>>] @@ f[i]] :
              f \in [1..n -> ScheduleShapes \cup MalformedShapes]} : n \in 0..MaxSchedules}

\* a store whose schedules were not written by the options page
InitMalformed ==
    /\ InitWorker
    /\ ~settings.requireParentUnlock
    /\ focusSession = DefaultSession
    /\ agent = SessionAgent
    /\ schedules \in MalformedLists
    /\ blockRules = DefaultRules
    /\ changes = <<>>
    /\ pushes = <<>>
    /\ listening = FALSE

\* the schedule alarm alone: checks one after the other
NextSchedule ==
    \/ \E t \in Slots : checkSchedules(t)
    \/ \E t \in Slots : checkSchedules_active(t)
    \/ \E t \in Slots : checkSchedules_loop(t)
    \/ \E t \in Slots : handleStartSession_dispatch(t)
    \/ \E t \in Slots : startPrecisionSession_write(t)
    \/ \E t \in Slots : startPrecisionSession_response(t)
    \/ \E t \in Slots : startPrecisionSession_settle(t)
    \/ \E t \in Slots : startStrictSession_send(t)
    \/ \E t \in Slots : startStrictSession_response(t)
    \/ \E t \in Slots : startStrictSession_settle(t)
    \/ \E t \in Slots : agentResponds(t)
    \/ \E t \in Slots : reply(t)
    \/ settleTimer
    \/ tick

SpecSchedule == InitSchedule /\ [][NextSchedule]_vars

SpecMalformed == InitMalformed /\ [][NextSchedule]_vars

\* ------------------------------------------------------ a long history
\* the history after n sessions of one minute, the last of them ended at 0
pastSessions(n) ==
    [i \in 1..n |-> [startTime |-> i - n - 1, endTime |-> i - n, durationMinutes |-> 1,
                     actualMinutes |-> 1, completedNaturally |-> TRUE,
                     scheduledId |-> "null"]]

\* the history is one short of the cap, or at it
InitHistory ==
    /\ settings \in SettingsSet
    /\ \E n \in {MAX_HISTORY_ENTRIES - 1, MAX_HISTORY_ENTRIES} :
          /\ sessionHistory = pastSessions(n)
          /\ stats = [totalSessions |-> n, totalFocusMinutes |-> n,
                      currentStreak |-> 1, lastSessionDate |-> "today"]
    /\ keepalive = FALSE
    /\ syncingFromNative = FALSE
    /\ settleTimers = 0
    /\ tasks = [t \in Slots \cup {Poller} |-> IdleTask]
    /\ now = 1
    /\ ops = 0
    /\ polls = 0
    /\ nativePort = 0
    /\ pollTimer = FALSE
    /\ runtime = NoRuntime
    /\ focusSession = DefaultSession
    /\ agent = SessionAgent
    /\ schedules = <<>>
    /\ blockRules = DefaultRules
    /\ changes = <<>>
    /\ pushes = <<>>
    /\ listening = FALSE

\* sessions started and ended one after the other
NextHistory ==
    \/ \E t \in Slots : handleStartSession(t, 1, MaxHistoryOps, {ShortSession})
    \/ \E t \in Slots : handleEndSession(t, 1, MaxHistoryOps)
    \/ \E t \in Slots : handleStartSession_dispatch(t)
    \/ \E t \in Slots : handleEndSession_dispatch(t)
    \/ \E t \in Slots : startPrecisionSession_write(t)
    \/ \E t \in Slots : startPrecisionSession_response(t)
    \/ \E t \in Slots : startPrecisionSession_settle(t)
    \/ \E t \in Slots : startStrictSession_send(t)
    \/ \E t \in Slots : startStrictSession_response(t)
    \/ \E t \in Slots : startStrictSession_settle(t)
    \/ \E t \in Slots : endPrecisionSession_record(t)
    \/ \E t \in Slots : endPrecisionSession_clear(t)
    \/ \E t \in Slots : endPrecisionSession_response(t)
    \/ \E t \in Slots : endStrictSession_check(t)
    \/ \E t \in Slots : endStrictSession_response(t)
    \/ \E t \in Slots : endStrictSession_clear(t)
    \/ \E t \in Slots : endStrictSession_settle(t)
    \/ \E t \in Slots : recordSession_write(t)
    \/ \E t \in Slots : updateStats_read(t)
    \/ \E t \in Slots : updateStats_write(t)
    \/ \E t \in Slots : agentResponds(t)
    \/ \E t \in Slots : reply(t)
    \/ settleTimer

SpecHistory == InitHistory /\ [][NextHistory]_vars

\* ---------------------------------------------------- the lock setting
\* the options page: the "require PIN" box is switched and setSettings called
userSetsRequirePin ==
    /\ quiet
    /\ busy = {}
    /\ ops < MaxLockOps
    /\ ops' = ops + 1
    /\ settings' = [settings EXCEPT !.requireParentUnlock = ~@]
    /\ UNCHANGED <<focusSession, sessionHistory, stats, keepalive, flags, agent, tasks,
                   now, polls, outside>>

\* requests handled one at a time, the lock setting edited between them,
\* and the poll beside them
NextLock ==
    \/ \E t \in Slots : handleStartSession(t, 1, MaxLockOps, {ShortSession})
    \/ \E t \in Slots : handleEndSession(t, 1, MaxLockOps)
    \/ \E t \in Slots : handleSwitchMode(t, 1, MaxLockOps)
    \/ \E t \in Slots : handlerStep(t)
    \/ \E t \in Slots : transitionStep(t)
    \/ \E t \in Slots : agentResponds(t)
    \/ \E t \in Slots : reply(t)
    \/ userSetsRequirePin
    \/ pollStateUpTo(MaxPolls)
    \/ pollState_response
    \/ syncStateFromNative_session
    \/ pollState_settle
    \/ settleTimer

SpecLock == Init /\ [][NextLock]_vars

\* -------------------------------------------------------- keepalive alarm
\* onAlarm KEEPALIVE_ALARM: up to isSessionActive()'s getActiveSession()
keepaliveAlarm(t, budget) ==
    /\ keepalive
    /\ free(t, 1, budget)
    /\ begin(t, [IdleTask EXCEPT !.op = "keepaliveAlarm", !.pc = "keepaliveAlarm_active",
                                 !.session = focusSession])

\* onAlarm, after isSessionActive().  A session with `active` set that has
\* run out is ended inside isSessionActive() by endFocusSession({natural:
\* true}); one with `active` set that still runs gets its badge updated and a
\* PING; for any other the alarm is cleared
keepaliveAlarm_active(t) ==
    /\ at(t, "keepaliveAlarm_active")
    /\ LET session == tasks[t].session
       IN IF session.active # "true"
          THEN /\ keepalive' = FALSE
               /\ setTask(t, IdleTask)
               /\ UNCHANGED conn
          ELSE IF isSessionActive(session, now)
          THEN /\ \E c \in (IF nativePort = 0 THEN connectNative(link)
                             ELSE {sendToPortOf(link)}) :
                     setLink(c, [tasks EXCEPT ![t] = IdleTask])
               /\ UNCHANGED keepalive
          ELSE /\ setTask(t, [tasks[t] EXCEPT !.pc = "endFocusSessionLocal",
                                              !.params.natural = TRUE])
               /\ UNCHANGED <<keepalive, conn>>
    /\ UNCHANGED <<store, flags, agent, now, ops, polls, schedules, blockRules, changes,
                   pushes, listening>>

\* a session is started and the keepalive alarm fires
NextAlarm ==
    \/ \E t \in Slots : handleStartSession(t, 1, MaxOps, {ShortSession})
    \/ \E t \in Slots : handleStartSession_dispatch(t)
    \/ \E t \in Slots : startPrecisionSession_write(t)
    \/ \E t \in Slots : startPrecisionSession_response(t)
    \/ \E t \in Slots : startPrecisionSession_settle(t)
    \/ \E t \in Slots : startStrictSession_send(t)
    \/ \E t \in Slots : startStrictSession_response(t)
    \/ \E t \in Slots : startStrictSession_settle(t)
    \/ \E t \in Slots : keepaliveAlarm(t, MaxOps)
    \/ \E t \in Slots : keepaliveAlarm_active(t)
    \/ \E t \in Slots : agentResponds(t)
    \/ \E t \in Slots : reply(t)
    \/ settleTimer
    \/ tick

SpecAlarm == Init /\ [][NextAlarm]_vars

\* ------------------------------------------------- startup, reconnection
\* a process start: the memory of the worker is new and its ports and timers
\* are gone, the store and the alarms are kept.  The startup function up to
\* isSessionActive()'s getActiveSession(): connectNative() is called
startup(t) ==
    /\ quiet
    /\ busy = {}
    /\ tasks[Poller].pc = "idle"
    /\ t = 1
    /\ ops < MaxStarts
    /\ ops' = ops + 1
    /\ syncingFromNative' = FALSE
    /\ settleTimers' = 0
    /\ LET fresh == [link EXCEPT !.nativePort = 0, !.pollTimer = FALSE,
                                 !.rt = [NoRuntime EXCEPT !.reachable = runtime.reachable]]
       IN \E c \in connectNative(fresh) :
             setLink(c, [tasks EXCEPT ![t] =
                           [IdleTask EXCEPT !.op = "startup", !.pc = "startup_active",
                                            !.session = focusSession]])
    /\ UNCHANGED <<store, keepalive, agent, now, polls, schedules, blockRules, changes,
                   pushes, listening>>

\* the startup function, after isSessionActive(): the keepalive alarm is
\* created, or checkSchedules() is called and runs up to its own
\* isSessionActive()
startup_active(t) ==
    /\ at(t, "startup_active")
    /\ LET session == tasks[t].session
       IN IF isSessionActive(session, now)
          THEN /\ keepalive' = TRUE
               /\ setTask(t, IdleTask)
          ELSE IF session.active = "true"
          THEN /\ setTask(t, [tasks[t] EXCEPT !.pc = "endFocusSessionLocal",
                                              !.params.natural = TRUE])
               /\ UNCHANGED keepalive
          ELSE /\ setTask(t, [tasks[t] EXCEPT !.pc = "checkSchedules_active",
                                              !.session = focusSession])
               /\ UNCHANGED keepalive
    /\ UNCHANGED <<store, flags, agentSide>>

\* a reconnect timeout fires, five seconds after it was set
reconnectTimer ==
    /\ quiet
    /\ tasks[Poller].pc = "idle"
    /\ runtime.reconnects > 0
    /\ \E c \in connectNative([link EXCEPT !.rt.reconnects = @ - 1]) : setLink(c, tasks)
    /\ UNCHANGED <<store, keepalive, flags, agent, now, ops, polls, schedules, blockRules,
                   changes, pushes, listening>>

\* the onDisconnect event of a port whose host went away
onDisconnect ==
    /\ quiet
    /\ \E p \in runtime.lost : setLink(onDisconnectOf(link, p), tasks)
    /\ UNCHANGED <<store, keepalive, flags, agent, now, ops, polls, schedules, blockRules,
                   changes, pushes, listening>>

\* disconnectNative()
disconnectNative ==
    /\ quiet
    /\ runtime.started
    /\ setLink(disconnectNativeOf(link), tasks)
    /\ UNCHANGED <<store, keepalive, flags, agent, now, ops, polls, schedules, blockRules,
                   changes, pushes, listening>>

\* the interval timer of startPolling fires
pollTimerFires ==
    /\ runtime.intervals > 0
    /\ pollStateUpTo(MaxConnPolls)

\* the host process ends; it can or cannot be launched again
hostExits ==
    /\ quiet
    /\ runtime.ports # runtime.lost
    /\ \E r \in BOOLEAN :
          runtime' = [runtime EXCEPT !.lost = runtime.ports, !.reachable = r]
    /\ UNCHANGED <<store, keepalive, flags, agent, tasks, now, ops, polls, schedules,
                   blockRules, changes, pushes, listening, nativePort, pollTimer>>

\* the host can be launched again
hostReturns ==
    /\ quiet
    /\ ~runtime.reachable
    /\ runtime' = [runtime EXCEPT !.reachable = TRUE]
    /\ UNCHANGED <<store, keepalive, flags, agent, tasks, now, ops, polls, schedules,
                   blockRules, changes, pushes, listening, nativePort, pollTimer>>

\* before the first process start
InitConn ==
    /\ InitMemory
    /\ nativePort = 0
    /\ pollTimer = FALSE
    /\ runtime \in {[NoRuntime EXCEPT !.started = FALSE, !.reachable = r] : r \in BOOLEAN}
    /\ focusSession = DefaultSession
    /\ agent = SessionAgent
    /\ schedules = <<>>
    /\ blockRules = DefaultRules
    /\ changes = <<>>
    /\ pushes = <<>>
    /\ listening = FALSE

\* process starts, a session started, and the connection kept up
NextConn ==
    \/ \E t \in Slots : startup(t)
    \/ \E t \in Slots : startup_active(t)
    \/ \E t \in Slots : checkSchedules_active(t)
    \/ \E t \in Slots : checkSchedules_loop(t)
    \/ \E t \in Slots : handleStartSession(t, 1, MaxStarts, {ShortSession})
    \/ \E t \in Slots : handleStartSession_dispatch(t)
    \/ \E t \in Slots : startPrecisionSession_write(t)
    \/ \E t \in Slots : startPrecisionSession_response(t)
    \/ \E t \in Slots : startPrecisionSession_settle(t)
    \/ \E t \in Slots : startStrictSession_send(t)
    \/ \E t \in Slots : startStrictSession_response(t)
    \/ \E t \in Slots : startStrictSession_settle(t)
    \/ \E t \in Slots : keepaliveAlarm(t, MaxStarts)
    \/ \E t \in Slots : keepaliveAlarm_active(t)
    \/ \E t \in Slots : agentResponds(t)
    \/ \E t \in Slots : reply(t)
    \/ settleTimer
    \/ reconnectTimer
    \/ onDisconnect
    \/ pollTimerFires
    \/ pollState_response
    \/ syncStateFromNative_session
    \/ pollState_settle
    \/ hostExits
    \/ hostReturns

SpecConn == InitConn /\ [][NextConn]_vars

\* process starts and the connection kept up, with no session started
NextReconnect ==
    \/ \E t \in Slots : startup(t)
    \/ \E t \in Slots : startup_active(t)
    \/ \E t \in Slots : checkSchedules_active(t)
    \/ \E t \in Slots : checkSchedules_loop(t)
    \/ settleTimer
    \/ reconnectTimer
    \/ onDisconnect
    \/ pollTimerFires
    \/ pollState_response
    \/ syncStateFromNative_session
    \/ pollState_settle
    \/ hostExits
    \/ hostReturns

\* the same with disconnectNative() called at any time
NextDisconnect ==
    \/ NextReconnect
    \/ disconnectNative

SpecDisconnect == InitConn /\ [][NextDisconnect]_vars

\* a timeout that was set fires, an event that is pending is delivered, and
\* a poll that was answered is worked off
SpecReconnect ==
    /\ InitConn
    /\ [][NextReconnect]_vars
    /\ WF_vars(reconnectTimer)
    /\ WF_vars(onDisconnect)
    /\ WF_vars(settleTimer)
    /\ WF_vars(pollState_response)
    /\ WF_vars(syncStateFromNative_session)
    /\ WF_vars(pollState_settle)

\* ------------------------------------------------------------ properties
\* the six legal transitions of the transition table
LegalPairs ==
    {<<"off", "precision">>, <<"off", "strict">>, <<"precision", "strict">>,
     <<"strict", "precision">>, <<"precision", "off">>, <<"strict", "off">>}

\* the step in which task t invokes transitionMode
invokes(t) == tasks[t].from = "none" /\ tasks'[t].from # "none"

\* task t runs (or has just finished) the transition from -> to
runs(t, from, to) == tasks[t].from = from /\ tasks[t].to = to

finished(t, from, to) == runs(t, from, to) /\ tasks[t].pc = "done"

InvalidTransition == [status |-> "ERROR", message |-> "InvalidTransition"]
CredentialRequired == [status |-> "ERROR", message |-> "CredentialRequired"]

\* the stored mode claims less than strict enforcement
weakStored == modeOf(focusSession) \in {"off", "precision"}

\* an answer that is no answer: nothing came back, or an error without a message
noUsableAnswer(resp) ==
    resp.status = "null" \/ (resp.status = "ERROR" /\ ~resp.message)

\* an error answer that says why
errorAnswer(resp) == resp.status = "ERROR" /\ resp.message

\* C1: a transition invoked with a `from` that differs from the stored mode
\* returns InvalidTransition at once and leaves the stored session as it is; in
\* particular a startSession (invoked as off -> defaultMode) that arrives while
\* the stored mode is precision or strict does not start over the running
\* session.
C1_MismatchedFromRejected ==
    [][\A t \in Slots :
          (invokes(t) /\ tasks'[t].from # modeOf(focusSession))
          => /\ tasks'[t].pc = "done"
             /\ tasks'[t].result = InvalidTransition
             /\ focusSession' = focusSession]_vars

\* C2: transitionMode invoked with a pair that is not one of the six legal
\* ones (same mode twice and unknown mode names included) returns the
\* InvalidTransition error in that very step, having written nothing to the
\* store, sent nothing to the agent and left the keepalive alarm alone.
C2_InvalidPairIsNoOp ==
    [][\A t \in Slots :
          (invokes(t) /\ <<tasks'[t].from, tasks'[t].to>> \notin LegalPairs)
          => /\ tasks'[t].pc = "done"
             /\ tasks'[t].result = InvalidTransition
             /\ tasks'[t].writes = 0
             /\ tasks'[t].sent = <<>>
             /\ UNCHANGED <<store, keepalive, flags, agent>>]_vars

\* C2 witness: strict -> strict was refused while a strict session is stored
C2_Witness ==
    \E t \in Slots :
       /\ finished(t, "strict", "strict")
       /\ tasks[t].result = InvalidTransition
       /\ focusSession.mode = "strict"

\* C3: an off -> strict transition whose START_SESSION(strict) got no usable
\* response (nothing, or a status other than OK) completes with status OK and
\* the stored mode is precision, whatever the agent answers to the fallback's
\* own request.
C3_StrictStartFallsBack ==
    \A t \in Slots :
       (finished(t, "off", "strict") /\ tasks[t].answers # <<>>
          /\ tasks[t].answers[1] # "OK")
       => /\ tasks[t].result.status = "OK"
          /\ focusSession.mode = "precision"

\* C3 witness: off -> strict has completed with every request left unanswered
C3_Witness ==
    \E t \in Slots :
       /\ finished(t, "off", "strict")
       /\ tasks[t].sent = <<"START_SESSION", "START_SESSION">>
       /\ tasks[t].answers = <<"null", "null">>
       /\ focusSession.mode = "precision"

\* C4: a precision -> strict transition whose SWITCH_MODE was not answered OK
\* completes with an error and the stored mode is precision: the store does
\* not keep mode strict for a switch the agent did not confirm.
C4_FailedSwitchReverted ==
    \A t \in Slots :
       (finished(t, "precision", "strict") /\ tasks[t].answers # <<"OK">>)
       => /\ tasks[t].result.status = "ERROR"
          /\ focusSession.mode = "precision"

\* C4 witness: a running precision session was switched, the agent did not
\* answer, the switch has completed
C4_Witness ==
    \E t \in Slots :
       /\ finished(t, "precision", "strict")
       /\ tasks[t].op = "switchMode"
       /\ tasks[t].answers = <<"null">>
       /\ tasks[t].writes = 2
       /\ focusSession.mode = "precision"
       /\ focusSession.startTime # NullTime

\* C5: while a strict, locked session is stored, every step of a strict -> off
\* transition that is a manual end (natural = false) without a credential
\* returns CredentialRequired: nothing was sent to the agent, nothing written,
\* and the store (session, history, stats) and the agent are as they were.
C5_LockedStrictEndRefused ==
    [][\A t \in Slots :
          (/\ runs(t, "strict", "off") /\ tasks[t].pc # "done"
           /\ ~tasks[t].params.natural /\ tasks[t].params.parentPin = ""
           /\ focusSession.mode = "strict" /\ focusSession.locked
           /\ tasks'[t] # tasks[t])
          => /\ tasks'[t].pc = "done"
             /\ tasks'[t].result = CredentialRequired
             /\ tasks'[t].sent = <<>>
             /\ tasks'[t].writes = 0
             /\ UNCHANGED <<store, agent>>]_vars

\* C5 witness: the manual end of a stored strict, locked session was refused
C5_Witness ==
    \E t \in Slots :
       /\ finished(t, "strict", "off")
       /\ tasks[t].op = "endSession"
       /\ tasks[t].result = CredentialRequired
       /\ focusSession.mode = "strict"
       /\ focusSession.locked

\* C6: while a locked session is stored, in mode precision or strict, a manual
\* endSession request (natural = false) without a credential changes nothing
\* in the stored session, and it fails.
C6_LockedNeverEndedWithoutCredential ==
    [][\A t \in Slots :
          (/\ tasks[t].op = "endSession"
           /\ ~tasks[t].params.natural /\ tasks[t].params.parentPin = ""
           /\ focusSession.locked
           /\ modeOf(focusSession) \in {"precision", "strict"})
          => /\ focusSession' = focusSession
             /\ (tasks'[t].pc = "done" => tasks'[t].result.status = "ERROR")]_vars

\* C7 as claimed: in no reachable state is the stored mode off or precision
\* while the agent's strict blocking is in force.
C7_NeverWeakerThanAgent == ~(weakStored /\ agentStrict)

\* C7 amended: with requests handled one at a time, when a transition has
\* completed and the agent answered OK to every request of it, the stored mode
\* is not off or precision while the agent's strict blocking is in force.
C7_AgreedAfterConfirmedTransition ==
    \A t \in Slots :
       (/\ tasks[t].pc = "done" /\ tasks[t].from # "none"
        /\ tasks[t].answers # <<>>
        /\ \A i \in 1..Len(tasks[t].answers) : tasks[t].answers[i] = "OK")
       => ~(weakStored /\ agentStrict)

\* C7 witness: strict -> precision has completed on the agent's OK: the agent
\* released before the store said precision
C7_Witness ==
    \E t \in Slots :
       /\ finished(t, "strict", "precision")
       /\ tasks[t].answers = <<"OK">>
       /\ focusSession.mode = "precision"
       /\ ~agentStrict

\* C8: the stored mode is off exactly when startTime and endTime are both null.
C8_OffIffNoTimes ==
    modeOf(focusSession) = "off"
       <=> (focusSession.startTime = NullTime /\ focusSession.endTime = NullTime)

\* C9 as claimed: a strict -> off transition writes (history, stats, the
\* cleared session) only after the agent has answered END_SESSION with OK, and
\* one that completes without an OK answer has written nothing and the stored
\* session is still strict.
C9_EndsOnlyAfterOK ==
    \A t \in Slots :
       runs(t, "strict", "off")
       => /\ tasks[t].writes > 0 => tasks[t].answers = <<"OK">>
          /\ (tasks[t].pc = "done" /\ tasks[t].answers # <<"OK">>)
                => (tasks[t].writes = 0 /\ focusSession.mode = "strict")

\* C9 amended: a strict -> off transition writes (history, stats, the cleared
\* session) only after the agent has answered END_SESSION, and not after an
\* error answer that carries a message: one that completes on such an answer
\* has written nothing, returns the error, and the stored session is still
\* strict.
C9_EndsOnlyAfterAnswer ==
    \A t \in Slots :
       runs(t, "strict", "off")
       => /\ tasks[t].writes > 0
                => (Len(tasks[t].answers) = 1 /\ ~errorAnswer(tasks[t].response))
          /\ (tasks[t].pc = "done" /\ errorAnswer(tasks[t].response))
                => /\ tasks[t].writes = 0
                   /\ tasks[t].result.status = "ERROR"
                   /\ focusSession.mode = "strict"

\* C9 witness: the agent refused a wrong PIN on a locked strict session; the
\* end has completed with the error and the session is still stored
C9_Witness ==
    \E t \in Slots :
       /\ finished(t, "strict", "off")
       /\ tasks[t].params.parentPin = "bad"
       /\ tasks[t].sent = <<"END_SESSION">>
       /\ errorAnswer(tasks[t].response)
       /\ tasks[t].result.status = "ERROR"
       /\ focusSession.mode = "strict" /\ focusSession.locked
       /\ sessionHistory = <<>>

\* C10: a strict -> off transition that passed the lock check and got no
\* usable response to END_SESSION completes with status OK, the stored session
\* cleared to off, the session's record the last entry of the history and the
\* stats counting it.
C10_EndedLocallyWhenUnanswered ==
    \A t \in Slots :
       (finished(t, "strict", "off") /\ tasks[t].sent = <<"END_SESSION">>
          /\ noUsableAnswer(tasks[t].response))
       => /\ tasks[t].result.status = "OK"
          /\ focusSession = ClearedSession
          /\ tasks[t].record # NoRecord
          /\ sessionHistory # <<>>
          /\ sessionHistory[Len(sessionHistory)] = tasks[t].record
          /\ stats.totalSessions = Len(sessionHistory)
          /\ tasks[t].writes = 3

\* C10 witness: a strict session was ended with the agent silent
C10_Witness ==
    \E t \in Slots :
       /\ finished(t, "strict", "off")
       /\ tasks[t].op = "endSession"
       /\ tasks[t].response.status = "null"
       /\ tasks[t].result.status = "OK"
       /\ focusSession = ClearedSession
       /\ Len(sessionHistory) = 1
       /\ agentStrict

\* C11: when the agent has answered END_SESSION with an error that carries a
\* message, the next step of the strict -> off transition returns that answer
\* (its status and its message) and nothing else happens: no store write, the
\* stored session, history and stats are as they were.
C11_AgentErrorPassedBack ==
    [][\A t \in Slots :
          (/\ runs(t, "strict", "off")
           /\ tasks[t].pc = "endStrict_response"
           /\ errorAnswer(tasks[t].response)
           /\ tasks'[t] # tasks[t])
          => /\ tasks'[t].pc = "done"
             /\ tasks'[t].result = [status |-> tasks[t].response.status,
                                    message |-> "agent"]
             /\ tasks'[t].writes = 0
             /\ UNCHANGED store]_vars

\* C11 witness: a wrong PIN was refused by the agent and the refusal returned
C11_Witness ==
    \E t \in Slots :
       /\ finished(t, "strict", "off")
       /\ tasks[t].params.parentPin = "bad"
       /\ tasks[t].answers = <<"ERROR">>
       /\ tasks[t].result = [status |-> "ERROR", message |-> "agent"]
       /\ focusSession.mode = "strict"

\* C12: a strict -> precision transition writes to the store only after it
\* has sent SWITCH_MODE and got OK for it; one that completes without that OK
\* returns an error, has written nothing, and the stored mode is still strict.
C12_DowngradeOnlyAfterOK ==
    \A t \in Slots :
       runs(t, "strict", "precision")
       => /\ tasks[t].writes > 0
                => (tasks[t].sent = <<"SWITCH_MODE">> /\ tasks[t].answers = <<"OK">>)
          /\ (tasks[t].pc = "done" /\ tasks[t].answers # <<"OK">>)
                => /\ tasks[t].result.status = "ERROR"
                   /\ tasks[t].writes = 0
                   /\ focusSession.mode = "strict"

\* C12 witness: the agent answered the downgrade with an error; strict stays
C12_Witness ==
    \E t \in Slots :
       /\ finished(t, "strict", "precision")
       /\ tasks[t].answers = <<"ERROR">>
       /\ tasks[t].result.status = "ERROR"
       /\ focusSession.mode = "strict"
       /\ agentStrict

\* the round trip has completed: its manual end has returned
roundTripDone == \E t \in Slots : finished(t, "precision", "off") /\ ops = 2

\* C13 as claimed: after the round trip the history holds exactly one entry,
\* with actualMinutes <= durationMinutes and completedNaturally false, and the
\* stored session is off.
C13_RoundTripOneEntry ==
    roundTripDone
    => /\ Len(sessionHistory) = 1
       /\ sessionHistory[1].actualMinutes <= sessionHistory[1].durationMinutes
       /\ ~sessionHistory[1].completedNaturally
       /\ modeOf(focusSession) = "off"

\* C13 amended: after the round trip the history holds exactly one entry, with
\* completedNaturally false, and the stored session is off; actualMinutes <=
\* durationMinutes when the end ran no later than the session's endTime.
C13_RoundTripOneEntryInTime ==
    roundTripDone
    => /\ Len(sessionHistory) = 1
       /\ ~sessionHistory[1].completedNaturally
       /\ modeOf(focusSession) = "off"
       /\ (sessionHistory[1].endTime
             <= sessionHistory[1].startTime + sessionHistory[1].durationMinutes)
          => sessionHistory[1].actualMinutes <= sessionHistory[1].durationMinutes

\* C13 witness: the session was ended by hand some minutes into it
C13_Witness ==
    /\ roundTripDone
    /\ Len(sessionHistory) = 1
    /\ sessionHistory[1].actualMinutes > 0
    /\ sessionHistory[1].actualMinutes < sessionHistory[1].durationMinutes
    /\ focusSession = ClearedSession

\* the handlers in flight that have appended a history entry for the session
\* they are ending
appended == {t \in Slots : tasks[t].record # NoRecord /\ tasks[t].pc # "recordSession_write"}

\* C14: every change of the stored session from an active mode to off is
\* accompanied by exactly one appended history entry: at the step that makes
\* the change, exactly one running handler has appended an entry, and the
\* history holds it.
C14_EveryEndRecorded ==
    [][(modeOf(focusSession) # "off" /\ modeOf(focusSession') = "off")
         => /\ Cardinality(appended) = 1
            /\ \A t \in appended :
                 \E i \in 1..Len(sessionHistory') : sessionHistory'[i] = tasks[t].record]_vars

\* the enabled schedules that cover the time t, by position
covering(t) == {i \in 1..Len(schedules) : triggers(schedules[i], t)}

\* C19: when several enabled schedules cover the current time, one schedule
\* check calls handleStartSession exactly once, with the id of the first such
\* schedule in list order.
C19_FirstScheduleWins ==
    [][\A t \in Slots :
          (/\ tasks[t].pc = "checkSchedules_loop"
           /\ tasks'[t] # tasks[t]
           /\ Cardinality(covering(now)) > 1)
          => /\ Len(starts(schedules, now)) = 1
             /\ tasks'[t].pc = "handleStart"
             /\ \E i \in covering(now) :
                   /\ \A j \in covering(now) : i <= j
                   /\ tasks'[t].params.scheduledId = schedules[i].id]_vars

\* C19 witness: a session started by a check that two schedules covered
C19_Witness ==
    \E t \in Slots :
       /\ tasks[t].op = "checkSchedules"
       /\ tasks[t].pc = "done"
       /\ tasks[t].result.status = "OK"
       /\ Cardinality(covering(now)) > 1
       /\ focusSession.scheduledId = schedules[1].id
       /\ modeOf(focusSession) # "off"

\* C20: the schedule engine dispatches no start while the stored mode is
\* precision or strict.
C20_NoStartOverRunningSession ==
    [][\A t \in Slots :
          (/\ tasks[t].op = "checkSchedules"
           /\ tasks[t].pc = "handleStart"
           /\ tasks'[t] # tasks[t])
          => modeOf(focusSession) = "off"]_vars

\* C15: the reconciliation step run a second time with the same report, on
\* the store the first run left, performs no store write, whatever keys and
\* fields the report carries.
C15_ReconcileIdempotent ==
    tasks[Poller].pc = "pollState_settle"
    => syncStateFromNative(tasks[Poller].response).writes = 0

\* C16: no SYNC_RULES or SYNC_SETTINGS push is started for a store change the
\* Reconciler wrote.
C16_NoEchoOfReconcilerWrites ==
    \A i \in 1..Len(pushes) : pushes[i].origin # "reconciler"

\* the listener handles the oldest event, a change made on the options page
handlesUserChange ==
    /\ changes # <<>>
    /\ changes' = Tail(changes)
    /\ Head(changes).origin = "user"

\* the pushes the step starts
started(type) ==
    {i \in (Len(pushes) + 1)..Len(pushes') :
        pushes'[i].type = type /\ pushes'[i].origin = "user"}

\* C17: every change of blockRules or settings made on the options page
\* starts a SYNC_RULES respectively SYNC_SETTINGS push, whenever it is made.
C17_UserChangePushed ==
    [][handlesUserChange
         => /\ "blockRules" \in Head(changes).keys => started("SYNC_RULES") # {}
            /\ "settings" \in Head(changes).keys => started("SYNC_SETTINGS") # {}]_vars

\* an agent-originated write has begun and its settle delay is not over
settling ==
    \/ tasks[Poller].pc \in {"syncStateFromNative_session", "syncStateFromNative_youtube",
                             "syncStateFromNative_domains", "syncStateFromNative_settings",
                             "pollState_settle"}
    \/ \E t \in Slots : tasks[t].pc \in {"startPrecision_settle", "startStrict_settle",
                                        "endStrict_settle"}
    \/ settleTimers > 0

\* C18: syncingFromNative is true from the beginning of an agent-originated
\* write until its settle delay is over.
C18_FlagHeldUntilSettled == settling => syncingFromNative

\* a well-formed entry: it has a day set and its window ends after it starts
valid(schedule) ==
    /\ "days" \in DOMAIN schedule
    /\ schedule.endMinutes > schedule.startMinutes

\* the well-formed enabled schedules that cover the time t, by position
coveringValid(t) ==
    {i \in 1..Len(schedules) : valid(schedules[i]) /\ triggers(schedules[i], t)}

\* C21: a malformed entry is skipped: a schedule check of a list that holds
\* one still starts the first well-formed schedule covering the current time.
C21_MalformedSkipped ==
    [][\A t \in Slots :
          (/\ tasks[t].pc = "checkSchedules_loop"
           /\ tasks'[t] # tasks[t]
           /\ \E i \in 1..Len(schedules) : ~valid(schedules[i])
           /\ coveringValid(now) # {})
          => /\ tasks'[t].pc = "handleStart"
             /\ \E i \in coveringValid(now) :
                   /\ \A j \in coveringValid(now) : i <= j
                   /\ tasks'[t].params.scheduledId = schedules[i].id]_vars

\* the session has run out at time t
expired(session, t) ==
    /\ modeOf(session) # "off"
    /\ session.endTime # NullTime
    /\ t >= session.endTime

\* C22: when the keepalive alarm fires for a session whose endTime has
\* passed, the handler ends it through the dispatcher: it enters the
\* precision->off or strict->off transition with natural = true.
C22_ExpiredSessionEnded ==
    [][\A t \in Slots :
          (/\ tasks[t].pc = "keepaliveAlarm_active"
           /\ tasks'[t] # tasks[t]
           /\ expired(tasks[t].session, now))
          => /\ tasks'[t].from = modeOf(tasks[t].session)
             /\ tasks'[t].to = "off"
             /\ tasks'[t].params.natural
             /\ tasks'[t].pc \in {"endPrecision_record", "endStrict_check"}]_vars

\* the session is a running mode-based session at time t
running(session, t) ==
    /\ modeOf(session) # "off"
    /\ ~(session.endTime # NullTime /\ t >= session.endTime)

\* C23: at a process start, once the stored session is known: with a session
\* running the keepalive alarm exists and the Schedule Engine is not run,
\* with none the Schedule Engine is run.
C23_StartupResumesOrSchedules ==
    [][\A t \in Slots :
          (tasks[t].pc = "startup_active" /\ tasks'[t] # tasks[t])
          => IF running(tasks[t].session, now)
             THEN keepalive' /\ tasks'[t].pc = "idle"
             ELSE tasks'[t].pc = "checkSchedules_active"]_vars

connected == nativePort # 0 /\ nativePort \notin runtime.lost

\* C25: once the process has started, whenever no port is held (the connect
\* failed or the connection was lost) a reconnect is pending; and if the host
\* stays reachable from some time on, the connection is established again.
C25_ReconnectScheduled ==
    /\ [](runtime.started /\ nativePort = 0 => runtime.reconnects > 0)
    /\ (<>[]runtime.reachable => [](runtime.started => <>connected))

\* C25 witness: the host cannot be launched, the connect has failed, no port
\* is held and a reconnect is pending
C25_Witness ==
    /\ runtime.started
    /\ ~runtime.reachable
    /\ nativePort = 0
    /\ runtime.ports = {}
    /\ runtime.reconnects = 1

\* pollState is called in this step
pollIssued == tasks[Poller].pc = "idle" /\ tasks'[Poller].pc = "pollState_response"

\* C26: with no port held, as after disconnectNative(), there is no port
\* open and no poll timer, and GET_STATE is sent only by a connectNative()
\* that opens a port.
C26_NoPollAfterDisconnect ==
    /\ [](nativePort = 0 => ~pollTimer /\ runtime.intervals = 0 /\ runtime.ports = {})
    /\ [][pollIssued /\ nativePort = 0 => nativePort' # 0]_vars

\* C26 witness: disconnectNative() has been called on a started worker: no
\* port is held and none is reopened by a pending reconnect
C26_Witness ==
    /\ runtime.started
    /\ nativePort = 0
    /\ runtime.reconnects = 0
    /\ ~pollTimer

\* C27: whatever the agent did (answered OK, answered with an error, did not
\* answer or could not be reached), a startSession, endSession or switchMode
\* handler that has returned, and the transitionMode call inside it, has
\* returned a result whose status is OK or ERROR.
C27_ResultAlwaysOkOrError ==
    \A t \in Slots :
       tasks[t].pc = "done"
       => /\ tasks[t].op \in {"startSession", "endSession", "switchMode"}
          /\ tasks[t].result.status \in {"OK", "ERROR"}

\* C27 witness: a switch strict -> precision whose SWITCH_MODE got no answer
\* has returned an error
C27_Witness ==
    \E t \in Slots :
       /\ finished(t, "strict", "precision")
       /\ tasks[t].op = "switchMode"
       /\ tasks[t].sent = <<"SWITCH_MODE">>
       /\ tasks[t].answers = <<"null">>
       /\ tasks[t].result.status = "ERROR"

\* task t takes a step of a start function that writes the session
startWrites(t) ==
    /\ tasks[t].pc \in {"startPrecision_write", "startPrecision_response",
                        "startStrict_response"}
    /\ tasks'[t] # tasks[t]

\* C28: the session a start function stores has locked = requireParentUnlock
\* && (a credential hash is set), by the settings the function read; and
\* while a session is stored (mode precision or strict before and after the
\* step) no step other than a session start changes Session.locked.
C28_LockedFrozen ==
    [][/\ \A t \in Slots :
             (startWrites(t) /\ focusSession' # focusSession)
             => focusSession'.locked = lockedOf(tasks[t].st)
       /\ (/\ modeOf(focusSession) # "off"
           /\ modeOf(focusSession') # "off"
           /\ focusSession'.locked # focusSession.locked)
          => \E t \in Slots : startWrites(t)]_vars

\* C29: the stored history never holds more than MAX_HISTORY_ENTRIES
\* entries; and the write of recordSession leaves the stored history with its
\* oldest entry dropped if it was full, the others in their order, and the new
\* record last.
C29_HistoryCapped ==
    /\ [](Len(sessionHistory) <= MAX_HISTORY_ENTRIES)
    /\ [][\A t \in Slots :
             (tasks[t].pc = "recordSession_write" /\ tasks'[t] # tasks[t])
             => sessionHistory' =
                   Append(IF Len(sessionHistory) = MAX_HISTORY_ENTRIES
                          THEN Tail(sessionHistory) ELSE sessionHistory,
                          tasks[t].record)]_vars

\* C29 witness: a session was ended on a full history: the history is still
\* full, its first entry is what was the second oldest, its last is the
\* record of that end
C29_Witness ==
    \E t \in Slots :
       /\ tasks[t].pc = "done"
       /\ tasks[t].op = "endSession"
       /\ tasks[t].record # NoRecord
       /\ Len(sessionHistory) = MAX_HISTORY_ENTRIES
       /\ sessionHistory[1] = pastSessions(MAX_HISTORY_ENTRIES)[2]
       /\ sessionHistory[MAX_HISTORY_ENTRIES - 1] =
             pastSessions(MAX_HISTORY_ENTRIES)[MAX_HISTORY_ENTRIES]
       /\ sessionHistory[MAX_HISTORY_ENTRIES] = tasks[t].record

\* C30: an off -> strict transition has written nothing as long as the agent
\* has not answered its START_SESSION(strict), and a step of it that stores a
\* session of mode strict is taken on the answer OK to that request alone.
C30_StrictStoredOnlyAfterOK ==
    /\ [](\A t \in Slots :
             (runs(t, "off", "strict") /\ tasks[t].writes > 0)
             => /\ tasks[t].sent[1] = "START_SESSION"
                /\ tasks[t].answers # <<>>)
    /\ [][\A t \in Slots :
             (/\ runs(t, "off", "strict")
              /\ tasks'[t] # tasks[t]
              /\ focusSession' # focusSession
              /\ modeOf(focusSession') = "strict")
             => /\ tasks[t].pc = "startStrict_response"
                /\ tasks[t].answers = <<"OK">>]_vars

\* C30 witness: a startSession with defaultMode strict has completed on the
\* agent's OK with one store write, and the stored mode is strict
C30_Witness ==
    \E t \in Slots :
       /\ finished(t, "off", "strict")
       /\ tasks[t].op = "startSession"
       /\ tasks[t].sent = <<"START_SESSION">>
       /\ tasks[t].answers = <<"OK">>
       /\ tasks[t].writes = 1
       /\ focusSession.mode = "strict"
       /\ agentStrict

\* C31: in off -> precision the step that sends START_SESSION has stored the
\* session (mode precision) the function built; the transition, once
\* finished, has returned status OK and the stored mode is precision, whatever
\* the agent answered; and the step taken on the agent's answer leaves the
\* store alone unless the answer is OK and carries a session, whose fields it
\* then stores.
C31_PrecisionStartedLocally ==
    /\ [](\A t \in Slots :
             finished(t, "off", "precision")
             => /\ tasks[t].result.status = "OK"
                /\ tasks[t].writes >= 1
                /\ focusSession.mode = "precision")
    /\ [][\A t \in Slots :
             (tasks'[t] # tasks[t])
             => /\ (tasks[t].pc = "startPrecision_write")
                   => /\ tasks'[t].sent = Append(tasks[t].sent, "START_SESSION")
                      /\ focusSession' = tasks'[t].session
                      /\ focusSession'.mode = "precision"
                /\ (tasks[t].pc = "startPrecision_response")
                   => IF /\ tasks[t].response.status = "OK"
                         /\ tasks[t].response.session # NoSession
                      THEN focusSession' = tasks[t].response.session
                      ELSE /\ focusSession' = focusSession
                           /\ tasks'[t].result.status = "OK"]_vars

\* C31 witness: a startSession has completed off -> precision with status OK
\* on an agent that gave no response, with the one write made before the
\* request, and the session is stored
C31_Witness ==
    \E t \in Slots :
       /\ finished(t, "off", "precision")
       /\ tasks[t].op = "startSession"
       /\ tasks[t].sent = <<"START_SESSION">>
       /\ tasks[t].answers = <<"null">>
       /\ tasks[t].writes = 1
       /\ tasks[t].result.status = "OK"
       /\ focusSession.mode = "precision"

\* C32: a finished precision -> off has returned status OK with the stored
\* session cleared, whatever the agent answered to its one END_SESSION; the
\* step that sends END_SESSION is the step that clears the session, it is the
\* first request of the transition, and if the session read had a start time
\* the history entry and the statistics are already stored when it is taken.
C32_PrecisionEndedLocally ==
    /\ [](\A t \in Slots :
             finished(t, "precision", "off")
             => /\ tasks[t].result.status = "OK"
                /\ tasks[t].sent = <<"END_SESSION">>
                /\ focusSession = ClearedSession)
    /\ [][\A t \in Slots :
             (/\ runs(t, "precision", "off")
              /\ Len(tasks'[t].sent) > Len(tasks[t].sent))
             => /\ tasks[t].sent = <<>>
                /\ focusSession' = ClearedSession
                /\ UNCHANGED <<sessionHistory, stats>>
                /\ (tasks[t].session.startTime # NullTime)
                   => /\ tasks[t].record # NoRecord
                      /\ tasks[t].writes = 2
                      /\ sessionHistory # <<>>
                      /\ sessionHistory[Len(sessionHistory)] = tasks[t].record
                      /\ stats = updateStatsAfterSession(tasks[t].statsRead,
                                                         tasks[t].record.actualMinutes)]_vars

\* C32 witness: an endSession has completed precision -> off with status OK
\* on an agent that gave no response; the entry is in the history and the
\* session is cleared
C32_Witness ==
    \E t \in Slots :
       /\ finished(t, "precision", "off")
       /\ tasks[t].op = "endSession"
       /\ tasks[t].answers = <<"null">>
       /\ tasks[t].writes = 3
       /\ tasks[t].record # NoRecord
       /\ sessionHistory # <<>>
       /\ sessionHistory[Len(sessionHistory)] = tasks[t].record
       /\ focusSession = ClearedSession

\* the first schedule in list order that covers the time t
firstCovering(t) == CHOOSE i \in covering(t) : \A j \in covering(t) : i <= j

\* C33: a schedule check that reaches its loop while the stored mode is off
\* and some enabled schedule covers the current day and minute calls
\* handleStartSession with the id of the first such schedule and, as duration,
\* that schedule's end minute minus the current minute; and when the call has
\* returned, it returned OK and the stored session has that id, an
\* endTime that duration after its startTime, and the mode Settings.defaultMode
\* (precision when the agent did not accept the strict start).
C33_ScheduleStartsSession ==
    /\ [][\A t \in Slots :
             (/\ tasks[t].pc = "checkSchedules_loop"
              /\ tasks'[t] # tasks[t]
              /\ modeOf(focusSession) = "off"
              /\ covering(now) # {})
             => /\ tasks'[t].pc = "handleStart"
                /\ tasks'[t].params.scheduledId = schedules[firstCovering(now)].id
                /\ tasks'[t].params.durationMinutes =
                      schedules[firstCovering(now)].endMinutes - minutesOf(now)]_vars
    /\ [](\A t \in Slots :
             (tasks[t].op = "checkSchedules" /\ tasks[t].pc = "done")
             => /\ tasks[t].result.status = "OK"
                /\ tasks[t].to = targetModeOf(settings)
                /\ focusSession.mode =
                      (IF tasks[t].to = "strict" /\ tasks[t].answers[1] = "OK"
                       THEN "strict" ELSE "precision")
                /\ focusSession.scheduledId = tasks[t].params.scheduledId
                /\ focusSession.endTime - focusSession.startTime =
                      tasks[t].params.durationMinutes)

\* C33 witness: a check made in minute 2 on a window [0, 3) has started a
\* strict session of one minute that carries the schedule's id
C33_Witness ==
    \E t \in Slots :
       /\ tasks[t].op = "checkSchedules"
       /\ tasks[t].pc = "done"
       /\ tasks[t].params.durationMinutes = 1
       /\ Len(schedules) >= 1
       /\ schedules[1].startMinutes = 0
       /\ triggers(schedules[1], focusSession.startTime)
       /\ focusSession.mode = "strict"
       /\ focusSession.startTime = 2
       /\ focusSession.endTime = 3
       /\ focusSession.scheduledId = schedules[1].id
       /\ sessionHistory = <<>>

\* ------------------------------------------------- the poll on a live port
\* the port is open, the interval timer runs, nothing else is in progress;
\* any store, any agent, any shape of report
InitPoll ==
    /\ InitMemory
    /\ nativePort = 1
    /\ pollTimer = TRUE
    /\ runtime = [NoRuntime EXCEPT !.ports = {1}, !.intervals = 1]
    /\ focusSession \in {DefaultSession, RunningSession}
    /\ blockRules \in {DefaultRules, EditedRules}
    /\ ~settings.requireParentUnlock
    /\ \E c \in ReportShapes, session \in {ClearedSession, RunningSession} :
          agent = [session |-> session, rules |-> EditedRules,
                   settings |-> AgentSettings, carries |-> c]
    /\ schedules = <<>>
    /\ changes = <<>>
    /\ pushes = <<>>
    /\ listening = FALSE

NextPoll ==
    \/ pollTimerFires
    \/ pollState_response
    \/ syncStateFromNative_session
    \/ syncStateFromNative_youtube
    \/ syncStateFromNative_domains
    \/ syncStateFromNative_settings
    \/ pollState_settle
    \/ settleTimer

SpecPoll == InitPoll /\ [][NextPoll]_vars

\* the agent's report carries the field f
reports(f) == f \in agent.carries

\* every value the agent reports is the value stored
agreed ==
    /\ reports("session.mode") => focusSession.mode = agent.session.mode
    /\ reports("session.startTime") => focusSession.startTime = agent.session.startTime
    /\ reports("session.endTime") => focusSession.endTime = agent.session.endTime
    /\ reports("session.locked") => focusSession.locked = agent.session.locked
    /\ reports("session.scheduledId") => focusSession.scheduledId = agent.session.scheduledId
    /\ reports("youtubeRules.blockedChannels")
       => blockRules.blockedChannels = agent.rules.blockedChannels
    /\ reports("youtubeRules.allowedChannels")
       => blockRules.allowedChannels = agent.rules.allowedChannels
    /\ reports("blockedDomains") => blockRules.blockedSites = agent.rules.blockedSites
    /\ \A f \in DOMAIN agent.settings :
          reports("settings." \o f) => settings[f] = agent.settings[f]

\* C34: with the port open and the poll timer running, an agent whose state
\* does not change and no other operation in progress, a poll that got its
\* answer and has run syncStateFromNative to its end leaves the stored
\* session fields, rule lists and synced settings equal to every value the
\* agent reported.
C34_StoreAgreesAfterPoll ==
    (/\ nativePort # 0
     /\ pollTimer
     /\ tasks[Poller].op = "pollState"
     /\ tasks[Poller].pc = "pollState_settle")
    => agreed

\* C34 witness: a poll of an agent that reports everything has written a
\* store that differed in session, rules and settings, and the store agrees
C34_Witness ==
    /\ nativePort # 0
    /\ pollTimer
    /\ tasks[Poller].pc = "pollState_settle"
    /\ tasks[Poller].writes = 1
    /\ tasks[Poller].updates.keys = {"focusSession", "blockRules", "settings"}
    /\ agent.carries = FullReport
    /\ agent.session = RunningSession
    /\ focusSession = RunningSession
    /\ blockRules = EditedRules
    /\ settings.defaultMode = "precision"
    /\ agreed

\* ------------------------------------------- a locked strict session
\* the session a strict start stores under a required credential, running to
\* the end of the clock
LockedStrictSession ==
    [mode |-> "strict", startTime |-> 1, endTime |-> MaxTime + 1,
     locked |-> TRUE, scheduledId |-> "null", active |-> "undef"]

\* the session is running, stored and enforced by the agent
InitLocked ==
    /\ settings \in {s \in SettingsSet : lockedOf(s)}
    /\ sessionHistory = <<>>
    /\ stats = DefaultStats
    /\ keepalive = TRUE
    /\ syncingFromNative = FALSE
    /\ settleTimers = 0
    /\ tasks = [t \in Slots \cup {Poller} |-> IdleTask]
    /\ now = 1
    /\ ops = 0
    /\ polls = 0
    /\ nativePort = 0
    /\ pollTimer = FALSE
    /\ runtime = NoRuntime
    /\ focusSession = LockedStrictSession
    /\ agent = [SessionAgent EXCEPT !.session = LockedStrictSession]
    /\ schedules = <<>>
    /\ blockRules = DefaultRules
    /\ changes = <<>>
    /\ pushes = <<>>
    /\ listening = FALSE

\* requests that carry no credential, one at a time
NextLocked ==
    \/ \E t \in Slots : handleStartSession(t, 1, MaxLockedOps, Durations)
    \/ \E t \in Slots : handleEndSessionNoCredential(t, 1, MaxLockedOps)
    \/ \E t \in Slots : handleSwitchMode(t, 1, MaxLockedOps)
    \/ \E t \in Slots : handleStartSession_dispatch(t)
    \/ \E t \in Slots : handleEndSession_dispatch(t)
    \/ \E t \in Slots : handleSwitchMode_dispatch(t)
    \/ \E t \in Slots : startPrecisionSession_write(t)
    \/ \E t \in Slots : startPrecisionSession_response(t)
    \/ \E t \in Slots : startPrecisionSession_settle(t)
    \/ \E t \in Slots : startStrictSession_send(t)
    \/ \E t \in Slots : startStrictSession_response(t)
    \/ \E t \in Slots : startStrictSession_settle(t)
    \/ \E t \in Slots : switchToStrict_write(t)
    \/ \E t \in Slots : switchToStrict_response(t)
    \/ \E t \in Slots : switchToPrecision_response(t)
    \/ \E t \in Slots : switchToPrecision_write(t)
    \/ \E t \in Slots : endPrecisionSession_record(t)
    \/ \E t \in Slots : endPrecisionSession_clear(t)
    \/ \E t \in Slots : endPrecisionSession_response(t)
    \/ \E t \in Slots : endStrictSession_check(t)
    \/ \E t \in Slots : recordSession_write(t)
    \/ \E t \in Slots : updateStats_read(t)
    \/ \E t \in Slots : updateStats_write(t)
    \/ \E t \in Slots : agentResponds(t)
    \/ \E t \in Slots : reply(t)
    \/ settleTimer
    \/ tick

SpecLocked == InitLocked /\ [][NextLocked]_vars

\* C35: from a locked strict session, under requests that carry no
\* credential, the stored session before its endTime is never off and is
\* still the session that was locked (same startTime and endTime, locked).
C35_LockedSessionSurvives ==
    (now < LockedStrictSession.endTime)
    => /\ modeOf(focusSession) # "off"
       /\ focusSession.locked
       /\ focusSession.startTime = LockedStrictSession.startTime
       /\ focusSession.endTime = LockedStrictSession.endTime

\* C36: the revert of a failed precision -> strict restores the session the
\* transition found (mode precision again) when the store still holds what
\* the transition wrote, and leaves the store alone when the session was
\* changed while SWITCH_MODE was in flight: a session ended meanwhile stays
\* off.
C36_RevertKeepsLaterChanges ==
    [][\A t \in Slots :
          (/\ tasks[t].pc = "switchToStrict_response"
           /\ tasks'[t] # tasks[t]
           /\ ~usable(tasks[t].response))
          => IF focusSession = tasks[t].session
             THEN focusSession' = [focusSession EXCEPT !.mode = "precision"]
             ELSE focusSession' = focusSession]_vars

\* ------------------------------------------- a session from another surface
\* the listener is registered; the agent may hold a session this worker did
\* not start
InitSurface ==
    /\ InitWorker
    /\ ~settings.requireParentUnlock
    /\ focusSession = DefaultSession
    /\ \E session \in {ClearedSession, RunningSession} :
          agent = [SessionAgent EXCEPT !.session = session]
    /\ schedules = <<>>
    /\ blockRules = DefaultRules
    /\ changes = <<>>
    /\ pushes = <<>>
    /\ listening = TRUE

\* sessions started here, the poll, the listener and the keepalive alarm
NextSurface ==
    \/ \E t \in Slots : handleStartSession(t, 1, MaxOps, {ShortSession})
    \/ \E t \in Slots : handleStartSession_dispatch(t)
    \/ \E t \in Slots : startPrecisionSession_write(t)
    \/ \E t \in Slots : startPrecisionSession_response(t)
    \/ \E t \in Slots : startPrecisionSession_settle(t)
    \/ \E t \in Slots : startStrictSession_send(t)
    \/ \E t \in Slots : startStrictSession_response(t)
    \/ \E t \in Slots : startStrictSession_settle(t)
    \/ \E t \in Slots : keepaliveAlarm(t, MaxOps)
    \/ \E t \in Slots : keepaliveAlarm_active(t)
    \/ \E t \in Slots : agentResponds(t)
    \/ \E t \in Slots : reply(t)
    \/ pollStateUpTo(MaxSyncPolls)
    \/ pollState_response
    \/ syncStateFromNative_session
    \/ pollState_settle
    \/ onChanged
    \/ settleTimer
    \/ tick

SpecSurface == InitSurface /\ [][NextSurface]_vars

\* no handler, poll or change event is in progress
atRest ==
    /\ busy = {}
    /\ tasks[Poller].pc = "idle"
    /\ changes = <<>>

\* C37: whenever the stored mode is precision or strict and nothing is in
\* progress, the keepalive alarm is scheduled, whoever wrote the session.
C37_KeepaliveWhileSession ==
    (atRest /\ modeOf(focusSession) # "off") => keepalive

\* ------------------------------------------------- a PING on a dead port
\* the session storage.js startFocusSessionLocal writes: `active` and no mode
LegacySession ==
    [mode |-> "undef", startTime |-> 1, endTime |-> MaxTime + 1,
     locked |-> FALSE, scheduledId |-> "null", active |-> "true"]

\* before a process start, with such a session stored and running
InitPing ==
    /\ InitMemory
    /\ nativePort = 0
    /\ pollTimer = FALSE
    /\ runtime \in {[NoRuntime EXCEPT !.started = FALSE, !.reachable = r] : r \in BOOLEAN}
    /\ focusSession = LegacySession
    /\ agent = SessionAgent
    /\ schedules = <<>>
    /\ blockRules = DefaultRules
    /\ changes = <<>>
    /\ pushes = <<>>
    /\ listening = FALSE

\* process starts, the keepalive alarm, and the connection kept up
NextPing ==
    \/ \E t \in Slots : startup(t)
    \/ \E t \in Slots : startup_active(t)
    \/ \E t \in Slots : checkSchedules_active(t)
    \/ \E t \in Slots : checkSchedules_loop(t)
    \/ \E t \in Slots : keepaliveAlarm(t, MaxStarts)
    \/ \E t \in Slots : keepaliveAlarm_active(t)
    \/ settleTimer
    \/ reconnectTimer
    \/ onDisconnect
    \/ pollTimerFires
    \/ pollState_response
    \/ syncStateFromNative_session
    \/ pollState_settle
    \/ hostExits
    \/ hostReturns

SpecPing == InitPing /\ [][NextPing]_vars

\* C38: the poll timer is set only while a port is held, also after
\* sendToPort has failed.
C38_TimerOnlyWithPort ==
    pollTimer => nativePort # 0

\* ------------------------------------------------------ the settle timers
\* requests and polls, MaxSettleOps of them together, and the listener
NextSettle ==
    \/ \E t \in Slots : handleStartSession(t, 1, MaxSettleOps - polls, {ShortSession})
    \/ \E t \in Slots : handleEndSession(t, 1, MaxSettleOps - polls)
    \/ \E t \in Slots : handleStartSession_dispatch(t)
    \/ \E t \in Slots : handleEndSession_dispatch(t)
    \/ \E t \in Slots : startPrecisionSession_write(t)
    \/ \E t \in Slots : startPrecisionSession_response(t)
    \/ \E t \in Slots : startPrecisionSession_settle(t)
    \/ \E t \in Slots : startStrictSession_send(t)
    \/ \E t \in Slots : startStrictSession_response(t)
    \/ \E t \in Slots : startStrictSession_settle(t)
    \/ \E t \in Slots : endPrecisionSession_record(t)
    \/ \E t \in Slots : endPrecisionSession_clear(t)
    \/ \E t \in Slots : endPrecisionSession_response(t)
    \/ \E t \in Slots : endStrictSession_check(t)
    \/ \E t \in Slots : endStrictSession_response(t)
    \/ \E t \in Slots : endStrictSession_clear(t)
    \/ \E t \in Slots : endStrictSession_settle(t)
    \/ \E t \in Slots : recordSession_write(t)
    \/ \E t \in Slots : updateStats_read(t)
    \/ \E t \in Slots : updateStats_write(t)
    \/ \E t \in Slots : agentResponds(t)
    \/ \E t \in Slots : reply(t)
    \/ pollStateUpTo(MaxSettleOps - ops)
    \/ pollState_response
    \/ syncStateFromNative_session
    \/ pollState_settle
    \/ onChanged
    \/ settleTimer

\* a fresh install with defaultMode strict and the listener registered
InitSettle ==
    /\ InitWorker
    /\ settings.defaultMode = "strict"
    /\ ~settings.requireParentUnlock
    /\ focusSession = DefaultSession
    /\ agent = SessionAgent
    /\ schedules = <<>>
    /\ blockRules = DefaultRules
    /\ changes = <<>>
    /\ pushes = <<>>
    /\ listening = TRUE

\* timers fire, events are delivered, and a function that has raised the flag
\* runs on through its write to the setTimeout after it
SpecSettle ==
    /\ InitSettle
    /\ [][NextSettle]_vars
    /\ WF_vars(settleTimer)
    /\ WF_vars(onChanged)
    /\ WF_vars(\E t \in Slots : reply(t))
    /\ WF_vars(\E t \in Slots : startPrecisionSession_settle(t))
    /\ WF_vars(\E t \in Slots : startStrictSession_settle(t))
    /\ WF_vars(\E t \in Slots : endStrictSession_settle(t))
    /\ WF_vars(syncStateFromNative_session)
    /\ WF_vars(pollState_settle)

C40_NaturalOnlyAfterEndTime ==
    /\ [][\A t \in Slots :
             (/\ tasks[t].pc = "endStrict_check"
              /\ tasks'[t] # tasks[t]
              /\ tasks[t].session.locked
              /\ tasks[t].params.parentPin = ""
              /\ tasks'[t].pc = "wait")
             => expired(tasks[t].session, now)]_vars
    /\ [](\A i \in 1..Len(sessionHistory) :
             sessionHistory[i].completedNaturally
             => sessionHistory[i].endTime >=
                   sessionHistory[i].startTime + sessionHistory[i].durationMinutes)

====
